---- MODULE Spec2Model ----
(***************************************************************************)
(* Verification model of the invoice-extraction browser extension.         *)
(*                                                                         *)
(*   sidebar/sidebar.js     the extraction pipeline of the sidebar (Spec)  *)
(*                          and the transfer form with its submission      *)
(*                          (SpecForm)                                     *)
(*   libs/ai-extractor.js   field normalisation (SpecNorm) and the         *)
(*                          byte-heuristic PDF text recovery (SpecPdf)     *)
(*   background worker      PDF processing handlers (SpecProc)             *)
(*                                                                         *)
(* JavaScript strings are sequences of one-character strings, so that the  *)
(* string transforms of the code (trim, replace, toUpperCase, substring,   *)
(* regular-expression scans) are computed and not assumed.                 *)
(***************************************************************************)
EXTENDS Integers, Sequences, FiniteSets, TLC

VARIABLES
    \* ---- sidebar: the transfer form (sidebar.js)
    val,            \* value of each static form field (fields.*.value)
    auto,           \* static fields carrying the class 'auto-filled'
    rendered,       \* bank inputs in #bank-fields-container, in order
    bankValue,      \* value of each rendered bank input
    bankAuto,       \* rendered bank inputs carrying the class 'auto-filled'
    screen,         \* "form" | "loading" (full-screen loading) | "success"
    visible,        \* which of the banners status / error / success is shown
    btnDisabled,    \* extractBtn.disabled
    fillTimers,     \* pending 100 ms timers of fillForm, oldest first
    hideTimers,     \* number of pending 5 s hideSuccess timers
    \* ---- sidebar: extraction pipeline (handleExtraction / processPDFFile)
    storedKey,      \* chrome.storage.local holds openai_api_key
    task,           \* position of each user-initiated extraction
    reply,          \* content-extraction response an extraction holds
    aiSent,         \* extractions whose extractWithAI request was sent
    aiReply,        \* extractWithAI response each extraction received
    filledBy,       \* extractions that called fillForm
    \* ---- libs/ai-extractor.js: one call of normalizeFields
    normPc,         \* "idle" | "call" | "done"
    normTop,        \* what JSON.parse returned: "object" | "null" | "primitive"
    normFields,     \* the fields of the parsed object (absent: undefined)
    parsed,         \* what `new Date(string)` yields in this call
    normOut,        \* the outcome of the call: thrown, or the record returned
    \* ---- libs/ai-extractor.js: one call of extractFromPDFWithVision
    pdfPc,          \* "idle" | "scan" | "check" | "send" | "failed"
    pdfString,      \* the decoded bytes of the PDF, one character each
    extractedText,  \* the text recovered from the literal strings
    \* ---- background worker: one processPDF / processPDFFile message
    procPc,         \* "idle" | "fetch" | "offscreen" | "fallback" | "return" | "done"
    procMsg,        \* the message being handled
    offscreenResult, \* the answer of the offscreen document
    procText,       \* the handler's variable extractedText
    procOut,        \* what sendResponse was called with
    \* ---- message passing between sidebar, background, content and offscreen
    reqs,           \* the requests sent with sendMessage and their answers
    \* ---- background worker: the extractWithAI handler
    bgAi,           \* how far handleAIExtraction got for each extraction
    \* ---- background worker: the Wise transfer flow
    flows,          \* each createWiseTransferFlow call: position, locals, POSTs issued
    \* ---- content script: one extractInvoice request
    dom,            \* the document the content script runs in
    contentPc,      \* position of handleExtraction
    contentOut,     \* what the listener answered, once it has
    \* ---- login gate: login page and the head of the sidebar script
    loginScript,    \* which login script the login page runs
    cookie,         \* is the wise_auth_session cookie present
    location,       \* the page shown, or the page being loaded
    loginInput,     \* email and password typed into the login form
    loginPc,        \* position of handleLogin
    \* ---- the options page (unnamed/part_004) and the stored credential
    openai_api_key, \* value stored under openai_api_key ('' when absent)
    apiKeyInput,    \* apiKeyInput.value
    optPc,          \* handleSave: idle, or awaiting testApiKey
    optKey,         \* the const apiKey of the running handleSave
    optMsg,         \* banner of the options page: none, error, success
    optTimers       \* pending auto-hide timers of the success banner

formVars == <<val, auto, rendered, bankValue, bankAuto>>
uiVars   == <<screen, visible, btnDisabled, fillTimers, hideTimers>>
pipeVars == <<storedKey, task, reply, aiSent, aiReply, filledBy>>
normVars == <<normPc, normTop, normFields, parsed, normOut>>
pdfVars  == <<pdfPc, pdfString, extractedText>>
procVars == <<procPc, procMsg, offscreenResult, procText, procOut>>
msgVars  == <<reqs>>
bgVars   == <<bgAi>>
wiseVars == <<flows>>
domVars  == <<dom, contentPc, contentOut>>
loginVars == <<loginScript, cookie, location, loginInput, loginPc>>
optVars  == <<openai_api_key, apiKeyInput, optPc, optKey, optMsg, optTimers>>
libVars  == <<normVars, pdfVars, procVars, msgVars, bgVars, wiseVars, domVars, loginVars, optVars>>
vars     == <<formVars, uiVars, pipeVars, libVars>>

-----------------------------------------------------------------------------
(* Strings *)

Range(s) == {s[i] : i \in 1..Len(s)}

\* The whitespace characters of the model alphabet (JavaScript \s).
WS == {" ", "\t", "\n"}

RECURSIVE RemoveWS(_)
\* s.replace(/\s/g, '')
RemoveWS(s) ==
    IF s = <<>> THEN <<>>
    ELSE IF Head(s) \in WS THEN RemoveWS(Tail(s))
         ELSE <<Head(s)>> \o RemoveWS(Tail(s))

RECURSIVE TrimLeft(_)
TrimLeft(s) == IF s # <<>> /\ Head(s) \in WS THEN TrimLeft(Tail(s)) ELSE s

RECURSIVE TrimRight(_)
TrimRight(s) ==
    IF s # <<>> /\ s[Len(s)] \in WS THEN TrimRight(SubSeq(s, 1, Len(s) - 1)) ELSE s

\* String.prototype.trim
Trim(s) == TrimRight(TrimLeft(s))

\* JavaScript truthiness of a string
Truthy(s) == s # <<>>

-----------------------------------------------------------------------------
(* Configuration tables of the sidebar *)

EUR == <<"E", "U", "R">>
GBP == <<"G", "B", "P">>
USD == <<"U", "S", "D">>

IbanCurrencies ==
    { <<"B","G","N">>, <<"C","H","F">>, <<"C","Z","K">>, <<"D","K","K">>, EUR,
      <<"G","E","L">>, <<"H","R","K">>, <<"H","U","F">>, <<"N","O","K">>,
      <<"P","K","R">>, <<"P","L","N">>, <<"R","O","N">>, <<"S","E","K">>,
      <<"T","R","Y">> }

DEFAULT == <<"D","E","F","A","U","L","T">>

SchemaKeys ==
    IbanCurrencies \cup
    { GBP, USD, <<"C","A","D">>, <<"A","U","D">>, <<"N","Z","D">>, <<"I","N","R">>,
      <<"C","N","Y">>, <<"J","P","Y">>, <<"S","G","D">>, <<"H","K","D">>,
      <<"B","R","L">>, <<"M","X","N">>, <<"Z","A","R">>, DEFAULT }

\* CURRENCY_BANK_FIELDS[c] for a key c of the table
CURRENCY_BANK_FIELDS(c) ==
    CASE c \in IbanCurrencies -> <<"iban">>
      [] c = GBP -> <<"sortCode", "accountNumber">>
      [] c = USD -> <<"routingNumber", "accountNumber", "accountType">>
      [] c = <<"C","A","D">> -> <<"institutionNumber", "transitNumber", "accountNumber">>
      [] c = <<"A","U","D">> -> <<"bsbCode", "accountNumber">>
      [] c = <<"N","Z","D">> -> <<"accountNumber">>
      [] c = <<"I","N","R">> -> <<"ifscCode", "accountNumber">>
      [] c = <<"C","N","Y">> -> <<"cnapsCode", "accountNumber">>
      [] c = <<"J","P","Y">> -> <<"bankCode", "branchCode", "accountNumber", "accountType">>
      [] c = <<"S","G","D">> -> <<"bankCode", "branchCode", "accountNumber">>
      [] c = <<"H","K","D">> -> <<"bankCode", "branchCode", "accountNumber">>
      [] c = <<"B","R","L">> -> <<"bankCode", "branchCode", "accountNumber", "accountType">>
      [] c = <<"M","X","N">> -> <<"clabeNumber">>
      [] c = <<"Z","A","R">> -> <<"accountNumber">>
      [] c = DEFAULT -> <<"accountNumber">>

\* The field names that have an entry in FIELD_CONFIG
FIELD_CONFIG ==
    { "iban", "sortCode", "accountNumber", "routingNumber", "accountType",
      "institutionNumber", "transitNumber", "bsbCode", "ifscCode", "cnapsCode",
      "bankCode", "branchCode", "clabeNumber" }

\* FIELD_CONFIG[f].type === 'select'
SelectFields == {"accountType"}

\* FIELD_CONFIG.accountType.options, with the empty default option
AccountTypeOptions ==
    { <<>>, <<"c","h","e","c","k","i","n","g">>, <<"s","a","v","i","n","g","s">> }

\* The static inputs of the form (the object `fields`)
StaticFields ==
    { "receiverName", "amount", "currency", "referenceNumber", "description",
      "invoiceNumber", "issueDate", "dueDate" }

\* The option the currency <select> falls back to on form.reset()
DefaultCurrency == EUR

\* bankFieldMapping of fillForm: <<key of the extracted record, form field>>
BankFieldMapping ==
    << <<"iban", "iban">>, <<"account_number", "accountNumber">>,
       <<"routing_number", "routingNumber">>, <<"account_type", "accountType">>,
       <<"sort_code", "sortCode">>, <<"ifsc_code", "ifscCode">>,
       <<"bsb_code", "bsbCode">>, <<"bank_code", "bankCode">>,
       <<"branch_code", "branchCode">>,
       <<"institution_number", "institutionNumber">>,
       <<"transit_number", "transitNumber">>, <<"cnaps_code", "cnapsCode">>,
       <<"clabe_number", "clabeNumber">> >>

\* The extracted-record key that fillForm writes into bank input f
AiKeyOf(f) ==
    BankFieldMapping[CHOOSE i \in 1..Len(BankFieldMapping) : BankFieldMapping[i][2] = f][1]

\* The extracted-record key that fillForm writes into static field f
StaticKeyOf(f) ==
    CASE f = "receiverName" -> "receiver_name"
      [] f = "amount" -> "amount"
      [] f = "currency" -> "currency"
      [] f = "referenceNumber" -> "reference_number"
      [] f = "description" -> "description"
      [] f = "invoiceNumber" -> "invoice_number"
      [] f = "issueDate" -> "issue_date"
      [] f = "dueDate" -> "due_date"

\* CURRENCY_BANK_FIELDS[currency] || CURRENCY_BANK_FIELDS['DEFAULT']
RequiredFields_NoFallback(currency) ==
    IF currency \in SchemaKeys THEN CURRENCY_BANK_FIELDS(currency) ELSE <<>>

RequiredFields(currency) ==
    IF currency \in SchemaKeys THEN CURRENCY_BANK_FIELDS(currency)
    ELSE CURRENCY_BANK_FIELDS(DEFAULT)

IsConfigured(f) == f \in FIELD_CONFIG

\* The inputs renderBankFields(currency) appends to the emptied container
renderBankFields(currency) == SelectSeq(RequiredFields(currency), IsConfigured)

\* The element renderBankFields creates for a field: a select for the
\* configured type 'select', else a text input; both with required = true
BankInput(fieldName) ==
    [id |-> <<"bank-", fieldName>>,
     type |-> IF fieldName \in SelectFields THEN "select" ELSE "text",
     required |-> TRUE]

\* Assigning v to the value of a <select> with the given options
SelectValue(options, v) == IF v \in options THEN v ELSE <<>>

RECURSIVE GroupsOf4(_)
\* cleaned.match(/.{1,4}/g).join(' ') for a non-empty cleaned
GroupsOf4(s) ==
    IF Len(s) <= 4 THEN s
    ELSE SubSeq(s, 1, 4) \o <<" ">> \o GroupsOf4(SubSeq(s, 5, Len(s)))

\* formatIBAN throws when the IBAN holds only whitespace (match returns null)
formatIBANThrows(iban) == Truthy(iban) /\ RemoveWS(iban) = <<>>

formatIBAN(iban) == IF ~Truthy(iban) THEN <<>> ELSE GroupsOf4(RemoveWS(iban))

-----------------------------------------------------------------------------
(* Banners *)

NoBanner == [status |-> FALSE, error |-> FALSE, success |-> FALSE]

hideStatus(v)  == [v EXCEPT !.status = FALSE]
hideError(v)   == [v EXCEPT !.error = FALSE]
hideSuccess(v) == [v EXCEPT !.success = FALSE]
showStatus(v)  == hideSuccess(hideError([v EXCEPT !.status = TRUE]))
\* showError without its calls of hideStatus and hideSuccess
showError_NoHide(v) == [v EXCEPT !.error = TRUE]
showError(v)   == hideSuccess(hideStatus([v EXCEPT !.error = TRUE]))
\* showSuccess also starts a 5 s hideSuccess timer (see the actions)
showSuccess(v) == hideError(hideStatus([v EXCEPT !.success = TRUE]))

-----------------------------------------------------------------------------
(* Bounds and input domains of the sidebar model *)

\* Number of user-initiated extractions a behaviour holds
MaxTasks == 2

\* Minimum trimmed text length the sidebar accepts (text.trim().length < 50)
MinTextLen == 50

Tasks == 1..MaxTasks

\* The 23 keys of a normalized record
FieldKeys ==
    { "invoice_number", "amount", "currency", "due_date", "issue_date",
      "reference_number", "description", "receiver_name", "receiver_address",
      "sender_name", "iban", "account_number", "routing_number", "account_type",
      "sort_code", "ifsc_code", "bsb_code", "bank_code", "branch_code",
      "institution_number", "transit_number", "cnaps_code", "clabe_number" }

BankKeys == {BankFieldMapping[i][1] : i \in 1..Len(BankFieldMapping)}

ModelCurrencies == {EUR, GBP, USD}

\* What the user types into a text input: nothing, a blank, a value
TypedValues == { <<>>, <<" ">>, <<"u">> }

\* Normalized records the AI step delivers in the model: a currency, a
\* receiver and an amount that are present or not, and the bank identifiers
\* of an invoice either all present or all absent.
ExtractedBank(k) ==
    CASE k = "iban" -> <<"D","E","8","9","3","7">>
      [] k = "account_type" -> <<"C","H","E","C","K","I","N","G">>
      [] OTHER -> <<"7">>

MkRecord(c, n, a, b) ==
    [k \in FieldKeys |->
        CASE k = "currency" -> c
          [] k = "receiver_name" -> n
          [] k = "amount" -> a
          [] k \in BankKeys -> IF b THEN ExtractedBank(k) ELSE <<>>
          [] OTHER -> <<>>]

AiRecords ==
    { MkRecord(c, n, a, b) :
        c \in ModelCurrencies, n \in {<<>>, <<"N">>}, a \in {<<>>, <<"1">>},
        b \in BOOLEAN }

\* The records the AI step delivers in Spec, where the stages of the pipeline
\* and not the contents of the record are at stake: an invoice with every
\* bank identifier, and one with none
PipelineRecords ==
    { MkRecord(GBP, <<"N">>, <<>>, TRUE), MkRecord(USD, <<>>, <<"1">>, FALSE) }

\* Trimmed lengths of the text a content-extraction response carries
TextLens == {0, MinTextLen - 1, MinTextLen}

Pending == [kind |-> "pending", len |-> 0]

\* Responses to extractInvoice / processPDF / processPDFFile as the sidebar
\* sees them: no response object, { error }, a record whose text is absent,
\* is a string of some trimmed length or is not a string, and a record
\* flagged useVisionAPI.
ContentReplies ==
    { [kind |-> k, len |-> 0] : k \in {"undefined", "error", "notext", "object", "vision"} }
    \cup { [kind |-> "text", len |-> n] : n \in TextLens }

-----------------------------------------------------------------------------
(* The transfer form *)

FormInit ==
    /\ val = [f \in StaticFields |-> IF f = "currency" THEN DefaultCurrency ELSE <<>>]
    /\ auto = {}
    /\ rendered = renderBankFields(EUR)
    /\ bankValue = [f \in Range(renderBankFields(EUR)) |-> <<>>]
    /\ bankAuto = {}

UiInit ==
    /\ screen = "form"
    /\ visible = NoBanner
    /\ btnDisabled = FALSE
    /\ fillTimers = <<>>
    /\ hideTimers = 0

Render_KeepsValues(currency) ==
    /\ rendered' = renderBankFields(currency)
    /\ bankValue' = [f \in Range(renderBankFields(currency)) |->
                        IF f \in Range(rendered) THEN bankValue[f] ELSE <<>>]
    /\ bankAuto' = {}

\* renderBankFields(currency) as a step: the container is emptied and the
\* inputs of the currency are created, empty and without classes
Render(currency) ==
    /\ rendered' = renderBankFields(currency)
    /\ bankValue' = [f \in Range(renderBankFields(currency)) |-> <<>>]
    /\ bankAuto' = {}

\* fillForm(data), up to the start of its 100 ms timer
fillForm(data) ==
    /\ val' = [f \in StaticFields |->
                 IF Truthy(data[StaticKeyOf(f)]) THEN data[StaticKeyOf(f)] ELSE val[f]]
    /\ auto' = auto \cup {f \in StaticFields : Truthy(data[StaticKeyOf(f)])}
    /\ IF Truthy(data["currency"]) THEN Render(data["currency"])
       ELSE UNCHANGED <<rendered, bankValue, bankAuto>>
    /\ fillTimers' = Append(fillTimers, data)

\* The value the timer callback of fillForm assigns to bank input f
BankFillValue(f, v) ==
    IF f = "iban" THEN formatIBAN(v)
    ELSE IF f \in SelectFields THEN SelectValue(AccountTypeOptions, v)
    ELSE v

\* The 100 ms timer of fillForm fires: every bank identifier of the record
\* whose input exists now is written and flagged.  An exception of formatIBAN
\* (first entry of the mapping) ends the callback before any write.
BankFillTimer ==
    /\ fillTimers # <<>>
    /\ LET data == Head(fillTimers)
           hit  == {f \in Range(rendered) : Truthy(data[AiKeyOf(f)])}
           thrown == "iban" \in hit /\ formatIBANThrows(data["iban"])
       IN  /\ bankValue' = [f \in Range(rendered) |->
                              IF f \in hit /\ ~thrown
                              THEN BankFillValue(f, data[AiKeyOf(f)]) ELSE bankValue[f]]
           /\ bankAuto' = IF thrown THEN bankAuto ELSE bankAuto \cup hit
    /\ fillTimers' = Tail(fillTimers)
    /\ UNCHANGED <<val, auto, rendered, screen, visible, btnDisabled, hideTimers, pipeVars>>
    /\ UNCHANGED libVars

\* The 5 s timer of showSuccess fires
HideSuccessTimer ==
    /\ hideTimers > 0
    /\ hideTimers' = hideTimers - 1
    /\ visible' = hideSuccess(visible)
    /\ UNCHANGED <<formVars, screen, btnDisabled, fillTimers, pipeVars>>
    /\ UNCHANGED libVars

\* The user types v into the static text input f (no handler is registered)
UserInput(f, v) ==
    /\ screen = "form"
    /\ val' = [val EXCEPT ![f] = v]
    /\ UNCHANGED <<auto, rendered, bankValue, bankAuto, uiVars, pipeVars>>
    /\ UNCHANGED libVars

\* The user types or selects v in the rendered bank input f
UserBankInput(f, v) ==
    /\ screen = "form"
    /\ f \in Range(rendered)
    /\ f \in SelectFields => v \in AccountTypeOptions
    /\ bankValue' = [bankValue EXCEPT ![f] = v]
    /\ UNCHANGED <<val, auto, rendered, bankAuto, uiVars, pipeVars>>
    /\ UNCHANGED libVars

\* The user picks currency c: the 'change' listener handleCurrencyChange
handleCurrencyChange(c) ==
    /\ screen = "form"
    /\ val' = [val EXCEPT !["currency"] = c]
    /\ Render(c)
    /\ UNCHANGED <<auto, uiVars, pipeVars>>
    /\ UNCHANGED libVars

\* getBankFieldValues(): the values of the inputs in the container
getBankFieldValues == bankValue

\* Object.values(bankFields).some(value => !value || value.trim() === '')
hasEmptyBankField ==
    \E f \in DOMAIN getBankFieldValues :
        ~Truthy(getBankFieldValues[f]) \/ Trim(getBankFieldValues[f]) = <<>>

\* handleSubmit passes both validations
SubmitAccepted ==
    /\ Truthy(val["receiverName"]) /\ Truthy(val["amount"])
    /\ ~hasEmptyBankField

\* handleSubmit up to its await: validation, then the full-screen loading
handleSubmit ==
    /\ screen = "form"
    /\ IF SubmitAccepted
       THEN /\ screen' = "loading"
            /\ UNCHANGED visible
       ELSE /\ visible' = showError(visible)
            /\ UNCHANGED screen
    /\ UNCHANGED <<formVars, btnDisabled, fillTimers, hideTimers, pipeVars>>
    /\ UNCHANGED libVars

\* The simulated 3 s submission ends: hideFullscreenLoading, showSuccessScreen
SubmitDone ==
    /\ screen = "loading"
    /\ screen' = "success"
    /\ UNCHANGED <<formVars, visible, btnDisabled, fillTimers, hideTimers, pipeVars>>
    /\ UNCHANGED libVars

\* clearForm(): form.reset() restores every control of the form to its
\* default (the currency select to its default option, text inputs and the
\* created bank inputs to empty) and fires no 'change' event; the class is
\* removed from the static fields only; hideSuccess, hideError.
clearForm ==
    /\ val' = [f \in StaticFields |-> IF f = "currency" THEN DefaultCurrency ELSE <<>>]
    /\ auto' = {}
    /\ bankValue' = [f \in Range(rendered) |-> <<>>]
    /\ UNCHANGED <<rendered, bankAuto>>
    /\ visible' = hideError(hideSuccess(visible))

\* handleClearForm with the confirm dialog accepted
handleClearForm ==
    /\ screen = "form"
    /\ clearForm
    /\ UNCHANGED <<screen, btnDisabled, fillTimers, hideTimers, pipeVars>>
    /\ UNCHANGED libVars

\* handleReturn: hideSuccessScreen, clearForm
handleReturn ==
    /\ screen = "success"
    /\ screen' = "form"
    /\ clearForm
    /\ UNCHANGED <<btnDisabled, fillTimers, hideTimers, pipeVars>>
    /\ UNCHANGED libVars

\* The dismiss button of the error banner
dismissError ==
    /\ screen = "form"
    /\ visible.error
    /\ visible' = hideError(visible)
    /\ UNCHANGED <<formVars, screen, btnDisabled, fillTimers, hideTimers, pipeVars>>
    /\ UNCHANGED libVars

-----------------------------------------------------------------------------
(* The extraction pipeline of the sidebar *)

PipeInit ==
    /\ storedKey \in BOOLEAN
    /\ task = [t \in Tasks |-> [pc |-> "idle", kind |-> "none"]]
    /\ reply = [t \in Tasks |-> Pending]
    /\ aiSent = {}
    /\ aiReply = [t \in Tasks |-> "pending"]
    /\ filledBy = {}

\* Extractions are numbered in the order they start
NextTask(t) == task[t].pc = "idle" /\ \A u \in Tasks : u < t => task[u].pc # "idle"

\* Click on the extract button: handleExtraction runs to `await checkApiKey()`
ClickExtract(t) ==
    /\ screen = "form" /\ ~btnDisabled
    /\ NextTask(t)
    /\ task' = [task EXCEPT ![t] = [pc |-> "key", kind |-> "button"]]
    /\ UNCHANGED <<formVars, uiVars, storedKey, reply, aiSent, aiReply, filledBy>>
    /\ UNCHANGED libVars

\* A PDF file is dropped or picked: handleDrop / the picker's onchange call
\* processPDFFile, which runs to `await checkApiKey()`
DropFile(t) ==
    /\ screen = "form"
    /\ NextTask(t)
    /\ task' = [task EXCEPT ![t] = [pc |-> "key", kind |-> "file"]]
    /\ UNCHANGED <<formVars, uiVars, storedKey, reply, aiSent, aiReply, filledBy>>
    /\ UNCHANGED libVars

\* handleDrop with no file or with a file whose type is not application/pdf
DropRejected ==
    /\ screen = "form"
    /\ visible' = showError(visible)
    /\ UNCHANGED <<formVars, screen, btnDisabled, fillTimers, hideTimers, pipeVars>>
    /\ UNCHANGED libVars

\* The catch and finally blocks of handleExtraction / processPDFFile
Fail(t) ==
    /\ visible' = showError(hideStatus(visible))
    /\ btnDisabled' = FALSE
    /\ task' = [task EXCEPT ![t].pc = "done"]

\* The getApiKey response arrives.  Without a key: showError and return (the
\* finally block re-enables the button).  With a key: showStatus, the button
\* is set loading, and the next await starts (tabs.query, or reading the file).
KeyReply(t) ==
    /\ task[t].pc = "key"
    /\ IF ~storedKey
       THEN /\ visible' = showError(visible)
            /\ btnDisabled' = FALSE
            /\ task' = [task EXCEPT ![t].pc = "done"]
       ELSE /\ visible' = showStatus(visible)
            /\ btnDisabled' = TRUE
            /\ task' = [task EXCEPT ![t].pc =
                            IF task[t].kind = "button" THEN "tabs" ELSE "read"]
    /\ UNCHANGED <<formVars, screen, fillTimers, hideTimers, storedKey, reply,
                   aiSent, aiReply, filledBy>>
    /\ UNCHANGED libVars

\* chrome.tabs.query resolves: without an active tab `tab.url` throws; else
\* processPDF (PDF url) or extractInvoice (any other page) is sent
TabsReply(t, hasTab) ==
    /\ task[t].pc = "tabs"
    /\ IF hasTab
       THEN /\ task' = [task EXCEPT ![t].pc = "content"]
            /\ UNCHANGED <<visible, btnDisabled>>
       ELSE Fail(t)
    /\ UNCHANGED <<formVars, screen, fillTimers, hideTimers, storedKey, reply,
                   aiSent, aiReply, filledBy>>
    /\ UNCHANGED libVars

\* readFileAsArrayBuffer settles: processPDFFile is sent, or the read failed
FileRead(t, ok) ==
    /\ task[t].pc = "read"
    /\ IF ok
       THEN /\ task' = [task EXCEPT ![t].pc = "content"]
            /\ UNCHANGED <<visible, btnDisabled>>
       ELSE Fail(t)
    /\ UNCHANGED <<formVars, screen, fillTimers, hideTimers, storedKey, reply,
                   aiSent, aiReply, filledBy>>
    /\ UNCHANGED libVars

\* ContentUsable with the error check (extractedData.error) left out
ContentUsable_NoErrorCheck(kind, r) ==
    /\ r.kind # "undefined"
    /\ \/ kind = "file" /\ r.kind = "vision"
       \/ r.kind \in {"text", "error"}

\* The checks between the content response and the AI request: the response
\* is an object without error; its text is a string of trimmed length >= 50
\* (processPDFFile skips the text check for a useVisionAPI response).
ContentUsable(kind, r) ==
    /\ r.kind \notin {"undefined", "error"}
    /\ \/ kind = "file" /\ r.kind = "vision"
       \/ r.kind = "text" /\ r.len >= MinTextLen

\* The response to extractInvoice / processPDF / processPDFFile arrives.
\* reply[t] is the handler's local extractedData: it exists while the handler
\* goes on to the AI request and is gone when the handler ends.
ContentReply(t, r) ==
    /\ task[t].pc = "content"
    /\ IF ContentUsable(task[t].kind, r)
       THEN /\ reply' = [reply EXCEPT ![t] = r]
            /\ aiSent' = aiSent \cup {t}
            /\ task' = [task EXCEPT ![t].pc = "ai"]
            /\ UNCHANGED <<visible, btnDisabled>>
       ELSE /\ Fail(t)
            /\ UNCHANGED <<reply, aiSent>>
    /\ UNCHANGED <<formVars, screen, fillTimers, hideTimers, storedKey, aiReply, filledBy>>
    /\ UNCHANGED libVars

\* What the sidebar receives for extractWithAI: { error } when the handler
\* found no stored key or the adapter threw, { success, fields } when the
\* adapter returned, and nothing when the channel closed
AiReplyKinds(t) ==
    CASE bgAi[t] = "adapter" -> {"undefined", "error", "fields"}
      [] bgAi[t] = "nokey" -> {"undefined", "error"}
      [] OTHER -> {"undefined"}

BgIdle == bgAi = [t \in Tasks |-> "none"]

handleAIExtraction_NoKeyCheck(t) ==
    /\ t \in aiSent /\ task[t].pc = "ai" /\ bgAi[t] = "none"
    /\ bgAi' = [bgAi EXCEPT ![t] = "adapter"]
    /\ UNCHANGED <<formVars, uiVars, pipeVars, normVars, pdfVars, procVars, msgVars, wiseVars, domVars, loginVars, optVars>>

\* The background worker handles the extractWithAI request of extraction t:
\* without a stored key it throws, with one it calls the AI adapter
\* (extractInvoiceFieldsWithAI)
handleAIExtraction(t) ==
    /\ t \in aiSent /\ task[t].pc = "ai" /\ bgAi[t] = "none"
    /\ bgAi' = [bgAi EXCEPT ![t] = IF storedKey THEN "adapter" ELSE "nokey"]
    /\ UNCHANGED <<formVars, uiVars, pipeVars, normVars, pdfVars, procVars, msgVars, wiseVars, domVars, loginVars, optVars>>

\* A key the AI service accepts
TestedKey == <<"s", "k", "-", "a">>

\* The options page saves a key that passed its test
handleSave ==
    /\ ~storedKey
    /\ storedKey' = TRUE
    /\ openai_api_key' = TestedKey
    /\ UNCHANGED <<task, reply, aiSent, aiReply, filledBy>>
    /\ UNCHANGED <<formVars, uiVars, normVars, pdfVars, procVars, msgVars, bgVars, wiseVars, domVars, loginVars>>
    /\ UNCHANGED <<apiKeyInput, optPc, optKey, optMsg, optTimers>>

\* The storage of the extension is cleared (browser settings, reinstallation)
StorageCleared ==
    /\ storedKey
    /\ storedKey' = FALSE
    /\ openai_api_key' = <<>>
    /\ UNCHANGED <<task, reply, aiSent, aiReply, filledBy>>
    /\ UNCHANGED <<formVars, uiVars, normVars, pdfVars, procVars, msgVars, bgVars, wiseVars, domVars, loginVars>>
    /\ UNCHANGED <<apiKeyInput, optPc, optKey, optMsg, optTimers>>

\* result.error is read: an absent response throws, an error is rethrown
AiUsable(k) == k = "fields"

\* The extractWithAI response arrives: fillForm, hideStatus, showSuccess
AiReply(t, k, data) ==
    /\ task[t].pc = "ai"
    /\ k \in AiReplyKinds(t)
    /\ aiReply' = [aiReply EXCEPT ![t] = k]
    /\ reply' = [reply EXCEPT ![t] = Pending]
    /\ IF AiUsable(k)
       THEN /\ fillForm(data)
            /\ visible' = showSuccess(hideStatus(visible))
            /\ hideTimers' = hideTimers + 1
            /\ btnDisabled' = FALSE
            /\ filledBy' = filledBy \cup {t}
            /\ task' = [task EXCEPT ![t].pc = "done"]
       ELSE /\ Fail(t)
            /\ UNCHANGED <<formVars, fillTimers, hideTimers, filledBy>>
    /\ UNCHANGED <<screen, storedKey, aiSent>>
    /\ UNCHANGED libVars

-----------------------------------------------------------------------------
(* libs/ai-extractor.js: JSON values and the field normalizers *)

\* A value JSON.parse can put into a field: a string, a number, a boolean,
\* null, or nothing at all (reading an absent key yields undefined).
\* Numbers of the model are integers; a boolean keeps 1 for true.
JUndefined == [t |-> "undefined", s |-> <<>>, n |-> 0]
JNull      == [t |-> "null", s |-> <<>>, n |-> 0]
JStr(s)    == [t |-> "string", s |-> s, n |-> 0]
JNum(n)    == [t |-> "number", s |-> <<>>, n |-> n]
JBool(b)   == [t |-> "boolean", s |-> <<>>, n |-> IF b THEN 1 ELSE 0]

\* !v
Falsy(v) ==
    \/ v.t \in {"undefined", "null"}
    \/ v.t = "string" /\ v.s = <<>>
    \/ v.t \in {"number", "boolean"} /\ v.n = 0

DigitChars == <<"0", "1", "2", "3", "4", "5", "6", "7", "8", "9">>

IsDigit(c) == \E i \in 1..Len(DigitChars) : DigitChars[i] = c

RECURSIVE NatToString(_)
NatToString(n) ==
    IF n < 10 THEN <<DigitChars[n + 1]>>
    ELSE NatToString(n \div 10) \o <<DigitChars[(n % 10) + 1]>>

\* String(v)
JsString(v) ==
    CASE v.t = "string" -> v.s
      [] v.t = "number" ->
            IF v.n < 0 THEN <<"-">> \o NatToString(0 - v.n) ELSE NatToString(v.n)
      [] v.t = "boolean" ->
            IF v.n = 1 THEN <<"t", "r", "u", "e">> ELSE <<"f", "a", "l", "s", "e">>
      [] v.t = "null" -> <<"n", "u", "l", "l">>
      [] OTHER -> <<"u", "n", "d", "e", "f", "i", "n", "e", "d">>

LowerCase ==
    <<"a", "b", "c", "d", "e", "f", "g", "h", "i", "j", "k", "l", "m",
      "n", "o", "p", "q", "r", "s", "t", "u", "v", "w", "x", "y", "z">>

UpperCase ==
    <<"A", "B", "C", "D", "E", "F", "G", "H", "I", "J", "K", "L", "M",
      "N", "O", "P", "Q", "R", "S", "T", "U", "V", "W", "X", "Y", "Z">>

\* String.prototype.toUpperCase
toUpperCase(s) ==
    [i \in 1..Len(s) |->
        IF \E j \in 1..Len(LowerCase) : LowerCase[j] = s[i]
        THEN UpperCase[CHOOSE j \in 1..Len(LowerCase) : LowerCase[j] = s[i]]
        ELSE s[i]]

\* s.replace(/,/g, '.')
CommaToDot(s) == [i \in 1..Len(s) |-> IF s[i] = "," THEN "." ELSE s[i]]

\* s.substring(0, n)
Substring0(s, n) == SubSeq(s, 1, IF Len(s) < n THEN Len(s) ELSE n)

normalizeAmount(amount) ==
    IF Falsy(amount) THEN JStr(<<>>)
    ELSE JStr(CommaToDot(RemoveWS(JsString(amount))))

normalizeCurrency(currency) ==
    IF Falsy(currency) THEN JStr(EUR)
    ELSE JStr(Substring0(toUpperCase(JsString(currency)), 3))

normalizeIBAN(iban) ==
    IF Falsy(iban) THEN JStr(<<>>)
    ELSE JStr(toUpperCase(RemoveWS(JsString(iban))))

\* /^\d{4}-\d{2}-\d{2}$/.test(s)
IsYMD(s) ==
    /\ Len(s) = 10
    /\ \A i \in 1..10 : IF i \in {5, 8} THEN s[i] = "-" ELSE IsDigit(s[i])

\* A Date object: invalid (its time is NaN), or a calendar day in UTC
InvalidDate == [valid |-> FALSE, y |-> 0, m |-> 0, d |-> 0]
DateOf(y, m, d) == [valid |-> TRUE, y |-> y, m |-> m, d |-> d]

RECURSIVE PadStart(_, _)
\* s.padStart(w, '0')
PadStart(s, w) == IF Len(s) >= w THEN s ELSE PadStart(<<"0">> \o s, w)

\* Date.prototype.toISOString().split('T')[0]: four-digit years as they
\* are, any other year with a sign and six digits
ISODatePart(p) ==
    LET year == IF p.y >= 0 /\ p.y <= 9999
                THEN PadStart(NatToString(p.y), 4)
                ELSE (IF p.y < 0 THEN <<"-">> ELSE <<"+">>)
                     \o PadStart(NatToString(IF p.y < 0 THEN 0 - p.y ELSE p.y), 6)
    IN  year \o <<"-">> \o PadStart(NatToString(p.m), 2)
             \o <<"-">> \o PadStart(NatToString(p.d), 2)

\* new Date(date): a number or a boolean is a time value in milliseconds
\* since 1970-01-01 (here within the 86400000 ms of one day of it); a
\* string is parsed, with the outcome `fromString` chosen by the engine's
\* date parser
NewDate(date, fromString) ==
    CASE date.t = "string" -> fromString
      [] date.t \in {"number", "boolean"} /\ date.n >= 0 /\ date.n < 86400000 ->
            DateOf(1970, 1, 1)
      [] date.t \in {"number", "boolean"} /\ date.n < 0 /\ date.n >= 0 - 86400000 ->
            DateOf(1969, 12, 31)
      [] OTHER -> InvalidDate

normalizeDate_EmptyOnFailure(date, fromString) ==
    IF Falsy(date) THEN JStr(<<>>)
    ELSE IF IsYMD(JsString(date)) THEN date
    ELSE IF NewDate(date, fromString).valid
         THEN JStr(ISODatePart(NewDate(date, fromString)))
         ELSE JStr(<<>>)

normalizeDate(date, fromString) ==
    IF Falsy(date) THEN JStr(<<>>)
    ELSE IF IsYMD(JsString(date)) THEN date
    ELSE IF NewDate(date, fromString).valid
         THEN JStr(ISODatePart(NewDate(date, fromString)))
         ELSE date

\* fields.x || ''
OrEmpty(v) == IF Falsy(v) THEN JStr(<<>>) ELSE v

\* Reading a property of null throws a TypeError; so does calling
\* toUpperCase on a truthy account_type that is not a string
normalizeFieldsThrows(top, fields) ==
    \/ top = "null"
    \/ ~Falsy(fields["account_type"]) /\ fields["account_type"].t # "string"

\* The object literal of normalizeFields, key by key
normalizeFields(fields, fromString) ==
    [k \in FieldKeys |->
        CASE k = "amount" -> normalizeAmount(fields[k])
          [] k = "currency" -> normalizeCurrency(fields[k])
          [] k \in {"due_date", "issue_date"} -> normalizeDate(fields[k], fromString)
          [] k = "iban" -> normalizeIBAN(fields[k])
          [] k = "account_type" ->
                IF Falsy(fields[k]) THEN JStr(<<>>) ELSE JStr(toUpperCase(fields[k].s))
          [] OTHER -> OrEmpty(fields[k])]

-----------------------------------------------------------------------------
(* Inputs and the call of normalizeFields *)

\* Longest amount, currency and date strings the AI response carries
MaxAmountLen == 5
MaxCurrencyLen == 4
MaxDateLen == 10

\* All strings over `chars` of length at most n
Strings(chars, n) == UNION {[1..k -> chars] : k \in 0..n}

\* Field values that are not strings
Scalars ==
    { JUndefined, JNull, JNum(0), JNum(1250), JNum(0 - 3),
      JBool(TRUE), JBool(FALSE) }

AmountChars == {"1", " ", ",", "."}
CurrencyChars == {"e", "U", "$"}
DateChars == {"2", "-"}
DateKeys == {"due_date", "issue_date"}

InputsFor(k) ==
    Scalars \cup
    { JStr(s) : s \in
        CASE k = "amount" -> Strings(AmountChars, MaxAmountLen)
          [] k = "currency" -> Strings(CurrencyChars, MaxCurrencyLen)
          [] k \in DateKeys -> Strings(DateChars, MaxDateLen)
          [] k = "iban" -> Strings({"d", " ", "8"}, 3)
          [] OTHER -> Strings({"x", " "}, 2) }

\* What the engine's date parser makes of a string that is not YYYY-MM-DD:
\* nothing, or a day (years of four digits)
ParseOutcomes == { InvalidDate, DateOf(2025, 12, 28), DateOf(987, 1, 5) }

NoResult == [threw |-> FALSE, rec |-> [k \in FieldKeys |-> JUndefined]]
Thrown   == [threw |-> TRUE, rec |-> [k \in FieldKeys |-> JUndefined]]

\* No call of normalizeFields is in progress
NormIdle ==
    /\ normPc = "idle"
    /\ normTop = "object"
    /\ normFields = [k \in FieldKeys |-> JUndefined]
    /\ parsed = InvalidDate
    /\ normOut = NoResult

\* JSON.parse(extractedText) returned: null, a primitive (whose properties
\* all read undefined), or an object in which one field takes any value of
\* its domain and the other fields are all absent, all null or all a word
NormInit ==
    /\ normPc = "call"
    /\ normOut = NoResult
    /\ \/ /\ normTop \in {"null", "primitive"}
          /\ normFields = [k \in FieldKeys |-> JUndefined]
          /\ parsed = InvalidDate
       \/ /\ normTop = "object"
          /\ \E k \in FieldKeys :
                /\ \E v \in InputsFor(k), b \in {JUndefined, JNull, JStr(<<"x">>)} :
                      normFields = [x \in FieldKeys |-> IF x = k THEN v ELSE b]
                /\ parsed \in (IF k \in DateKeys THEN ParseOutcomes ELSE {InvalidDate})

\* const normalized = normalizeFields(extractedFields)
CallNormalizeFields ==
    /\ normPc = "call"
    /\ normPc' = "done"
    /\ normOut' = IF normalizeFieldsThrows(normTop, normFields) THEN Thrown
                  ELSE [threw |-> FALSE, rec |-> normalizeFields(normFields, parsed)]
    /\ UNCHANGED <<normTop, normFields, parsed>>
    /\ UNCHANGED <<formVars, uiVars, pipeVars, pdfVars, procVars, msgVars, bgVars, wiseVars, domVars, loginVars, optVars>>

-----------------------------------------------------------------------------
(* libs/ai-extractor.js: recovery of text from the bytes of a PDF *)

\* Byte 0x01, a character of the class [\x00-\x08\x0B\x0C\x0E-\x1F]
SOH == "^A"
ControlChars == {SOH}

BACKSLASH == "\\"

\* Index of the first ")" after position i, or 0
NextClose(s, i) ==
    IF \E j \in (i + 1)..Len(s) : s[j] = ")"
    THEN CHOOSE j \in (i + 1)..Len(s) :
            s[j] = ")" /\ \A k \in (i + 1)..(j - 1) : s[k] # ")"
    ELSE 0

RECURSIVE MatchFrom(_, _)
\* pdfString.match(/\(([^)]{3,})\)/g), each match without its parentheses
\* (match.slice(1, -1)): the leftmost "(" followed by three or more
\* characters other than ")" and then a ")"; the scan resumes after it
MatchFrom(s, i) ==
    IF i > Len(s) THEN <<>>
    ELSE IF s[i] = "(" /\ NextClose(s, i) - i - 1 >= 3
         THEN <<SubSeq(s, i + 1, NextClose(s, i) - 1)>>
              \o MatchFrom(s, NextClose(s, i) + 1)
         ELSE MatchFrom(s, i + 1)

RECURSIVE ReplaceEscape(_, _, _)
\* text.replace(/\\c/g, rep) for the characters c of `after`: every
\* backslash followed by one of them is replaced, by `rep` or, when rep is
\* "$1", by the character that follows the backslash
ReplaceEscape(s, after, rep) ==
    IF s = <<>> THEN <<>>
    ELSE IF Len(s) >= 2 /\ s[1] = BACKSLASH /\ s[2] \in after
         THEN <<IF rep = "$1" THEN s[2] ELSE rep>>
              \o ReplaceEscape(SubSeq(s, 3, Len(s)), after, rep)
         ELSE <<Head(s)>> \o ReplaceEscape(Tail(s), after, rep)

\* The chain of replace calls, in the order of the code
Unescape(text) ==
    ReplaceEscape(ReplaceEscape(ReplaceEscape(ReplaceEscape(ReplaceEscape(
        text, {"n"}, " "), {"r"}, " "), {"t"}, " "), {BACKSLASH}, BACKSLASH),
        {"(", ")"}, "$1")

\* if (text.length < 3 || /[\x00-\x08\x0B\x0C\x0E-\x1F]/.test(text)) continue
Skipped(text) == Len(text) < 3 \/ Range(text) \cap ControlChars # {}

RECURSIVE Concatenate(_)
\* extractedText += text + ' ' over the matches that are not skipped
Concatenate(matches) ==
    IF matches = <<>> THEN <<>>
    ELSE (IF Skipped(Head(matches)) THEN <<>> ELSE Unescape(Head(matches)) \o <<" ">>)
         \o Concatenate(Tail(matches))

\* The recovered text of a PDF, trimmed
RecoverText(s) == Trim(Concatenate(MatchFrom(s, 1)))

\* Shortest recovered text that is sent on (extractedText.length < 50)
MinPdfTextLen == 50

\* Number of pieces the bytes of a PDF are put together from
MaxPieces == 5

\* The pieces: the delimiters of a literal string, a backslash, a word, the
\* letter n and a control character
Pieces == { <<"(">>, <<")">>, <<BACKSLASH>>, <<"a", "b", "c">>, <<"n">>, <<SOH>> }

RECURSIVE Flatten(_)
Flatten(ps) == IF ps = <<>> THEN <<>> ELSE Head(ps) \o Flatten(Tail(ps))

\* A literal string long enough by itself to pass the length check
Body == [i \in 1..MinPdfTextLen |-> "x"]
LongLiteral == <<"(">> \o Body \o <<")">>

PdfStrings ==
    { pre \o Flatten(ps) :
        pre \in {<<>>, LongLiteral}, ps \in Strings(Pieces, MaxPieces) }

PdfIdle == pdfPc = "idle" /\ pdfString = <<>> /\ extractedText = <<>>

\* const pdfString = decoder.decode(bytes)
PdfInit == pdfPc = "scan" /\ pdfString \in PdfStrings /\ extractedText = <<>>

\* Lines 300-325: the literal strings are collected into extractedText
ScanLiterals ==
    /\ pdfPc = "scan"
    /\ extractedText' = RecoverText(pdfString)
    /\ pdfPc' = "check"
    /\ UNCHANGED <<pdfString, formVars, uiVars, pipeVars, normVars, procVars, msgVars, bgVars, wiseVars, domVars, loginVars, optVars>>

\* Lines 329-331: too short a text is an error, any other text is sent on
CheckLength ==
    /\ pdfPc = "check"
    /\ pdfPc' = IF Len(extractedText) < MinPdfTextLen THEN "failed" ELSE "send"
    /\ UNCHANGED <<pdfString, extractedText, formVars, uiVars, pipeVars, normVars, procVars, msgVars, bgVars, wiseVars, domVars, loginVars, optVars>>

-----------------------------------------------------------------------------
(* Background worker: handlePDFProcessing and handlePDFFileProcessing *)

\* Shortest trimmed text the worker takes from the PDF parser of the
\* offscreen document (extractedText.trim().length < 50)
MinParsedLen == 50

\* Lengths of the text the offscreen document extracts (already trimmed)
ParsedLens == {0, 1, MinParsedLen - 1, MinParsedLen}

\* A value of the variable extractedText: a string of some trimmed length,
\* the record { useVisionAPI, base64, mimeType }, null, or not yet assigned
TextOf(len)  == [t |-> "string", len |-> len]
NoText       == [t |-> "undefined", len |-> 0]
VisionRecord == [t |-> "object", len |-> 0]
NullText     == [t |-> "null", len |-> 0]

\* libs/pdf-processor.js extractTextFromPDF: the record, or null when the
\* conversion to base64 throws
HeuristicResults == {VisionRecord, NullText}

\* Responses of the offscreen document to extractPDFText: none, a failure
\* with its error message, or a text
OffscreenResults ==
    { [kind |-> "undefined", len |-> 0], [kind |-> "failed", len |-> 0] } \cup
    { [kind |-> "text", len |-> n] : n \in ParsedLens }

UrlKinds == {"drive", "blob", "data", "http"}

\* Error messages
ImageBasedMsg == "Could not extract enough text from PDF. The PDF might be image-based or empty."
GmailMsg      == "Cannot access PDF from Gmail attachment viewer. Please download the PDF and open it in a new tab to extract data."
FetchMsg      == "Failed to fetch PDF"
HeaderMsg     == "Invalid PDF file: Missing PDF header"
OffscreenMsg  == "Offscreen PDF text extraction failed"
TypeErrorMsg  == "TypeError"

NoResponse == [kind |-> "pending", msg |-> "", text |-> NullText]
ErrorResponse(msg) == [kind |-> "error", msg |-> msg, text |-> NullText]
PdfResponse(text)  == [kind |-> "success", msg |-> "", text |-> text]

ProcIdle ==
    /\ procPc = "idle"
    /\ procMsg = [action |-> "none", url |-> "none", pdfData |-> <<>>]
    /\ offscreenResult = [kind |-> "pending", len |-> 0]
    /\ procText = NoText
    /\ procOut = NoResponse

\* !extractedText || extractedText.trim().length < 50, where the text is a
\* string
TooShort(text) == text.len < MinParsedLen

\* message.action === 'processPDF'
OnProcessPDF(url) ==
    /\ procPc = "idle"
    /\ procMsg' = [action |-> "processPDF", url |-> url, pdfData |-> <<>>]
    /\ procPc' = "fetch"
    /\ UNCHANGED <<offscreenResult, procText, procOut>>
    /\ UNCHANGED <<formVars, uiVars, pipeVars, normVars, pdfVars, msgVars, bgVars, wiseVars, domVars, loginVars, optVars>>

\* fetchPDF: the bytes, or an error (rewritten for Google Drive URLs)
FetchPDF(ok) ==
    /\ procPc = "fetch"
    /\ IF ok THEN procPc' = "offscreen" /\ UNCHANGED procOut
       ELSE /\ procPc' = "done"
            /\ procOut' = ErrorResponse(IF procMsg.url = "drive" THEN GmailMsg ELSE FetchMsg)
    /\ UNCHANGED <<procMsg, offscreenResult, procText>>
    /\ UNCHANGED <<formVars, uiVars, pipeVars, normVars, pdfVars, msgVars, bgVars, wiseVars, domVars, loginVars, optVars>>

\* The first bytes of a PDF file, and the leading bytes of the files sent:
\* up to MaxHeadLen bytes, each the byte a PDF has there or another one
MaxHeadLen == 6
PdfHead == <<"%", "P", "D", "F", "-", "1", "." , "7">>
FileHeads ==
    UNION { { s \in [1..n -> {"%", "P", "D", "F", "-", "1", ".", "7", "x"}] :
                \A i \in 1..n : s[i] \in {PdfHead[i], "x"} } : n \in 0..MaxHeadLen }

\* uint8Array.slice(0, 5) as String.fromCharCode(...) spells it
slice(bytes, from, to) ==
    IF from >= Len(bytes) THEN <<>>
    ELSE SubSeq(bytes, from + 1, IF to < Len(bytes) THEN to ELSE Len(bytes))

startsWith_FirstByte(s, prefix) == Len(s) >= 1 /\ s[1] = prefix[1]

\* String.prototype.startsWith
startsWith(s, prefix) ==
    /\ Len(s) >= Len(prefix)
    /\ SubSeq(s, 1, Len(prefix)) = prefix

\* message.action === 'processPDFFile', up to the request to the offscreen
\* document: the header check, then setupOffscreenDocument and the request
OnProcessPDFFile(pdfData) ==
    /\ procPc = "idle"
    /\ procMsg' = [action |-> "processPDFFile", url |-> "none", pdfData |-> pdfData]
    /\ LET header == slice(pdfData, 0, 5) IN
       IF startsWith(header, <<"%", "P", "D", "F", "-">>)
       THEN procPc' = "offscreen" /\ UNCHANGED procOut
       ELSE procPc' = "done" /\ procOut' = ErrorResponse(HeaderMsg)
    /\ UNCHANGED <<offscreenResult, procText>>
    /\ UNCHANGED <<formVars, uiVars, pipeVars, normVars, pdfVars, msgVars, bgVars, wiseVars, domVars, loginVars, optVars>>

\* The offscreen document answered. Without a successful answer the handler
\* throws (reading result.success of no answer is a TypeError on the file
\* path); a text that is long enough is kept, any other starts the fallback.
OffscreenReply(r) ==
    /\ procPc = "offscreen"
    /\ offscreenResult' = r
    /\ CASE r.kind = "undefined" ->
              /\ procPc' = "done"
              /\ procOut' = ErrorResponse(IF procMsg.action = "processPDF"
                                          THEN OffscreenMsg ELSE TypeErrorMsg)
              /\ UNCHANGED procText
         [] r.kind = "failed" ->
              /\ procPc' = "done"
              /\ procOut' = ErrorResponse(OffscreenMsg)
              /\ UNCHANGED procText
         [] OTHER ->
              /\ procText' = TextOf(r.len)
              /\ procPc' = IF TooShort(TextOf(r.len)) THEN "fallback" ELSE "return"
              /\ UNCHANGED procOut
    /\ UNCHANGED procMsg
    /\ UNCHANGED <<formVars, uiVars, pipeVars, normVars, pdfVars, msgVars, bgVars, wiseVars, domVars, loginVars, optVars>>

\* extractedText = await extractTextFromPDF(pdfData)
HeuristicReply(res) ==
    /\ procPc = "fallback"
    /\ procText' = res
    /\ procPc' = "return"
    /\ UNCHANGED <<procMsg, offscreenResult, procOut>>
    /\ UNCHANGED <<formVars, uiVars, pipeVars, normVars, pdfVars, msgVars, bgVars, wiseVars, domVars, loginVars, optVars>>

\* The end of the handler. handlePDFProcessing returns the text as it is;
\* handlePDFFileProcessing first tests it: null is the image-based error,
\* calling trim on the record a TypeError, a short string the image-based
\* error.
ReturnText ==
    /\ procPc = "return"
    /\ procPc' = "done"
    /\ procOut' =
          IF procMsg.action = "processPDF" THEN PdfResponse(procText)
          ELSE CASE procText.t = "null" -> ErrorResponse(ImageBasedMsg)
                 [] procText.t = "object" -> ErrorResponse(TypeErrorMsg)
                 [] OTHER -> IF TooShort(procText) THEN ErrorResponse(ImageBasedMsg)
                             ELSE PdfResponse(procText)
    /\ UNCHANGED <<procMsg, offscreenResult, procText>>
    /\ UNCHANGED <<formVars, uiVars, pipeVars, normVars, pdfVars, msgVars, bgVars, wiseVars, domVars, loginVars, optVars>>

-----------------------------------------------------------------------------
(* The onMessage listeners of the background worker, the content script and
   the offscreen document *)

\* Number of requests a behaviour holds
MaxRequests == 2

Requests == 1..MaxRequests

\* The actions the extension sends with runtime.sendMessage / tabs.sendMessage
MsgActions ==
    { "extractInvoice", "processPDF", "processPDFFile", "extractWithAI",
      "getApiKey", "saveApiKey", "createWiseTransfer", "fetchBlob",
      "extractPDFText" }

\* Some listener has a branch for the action and returns true: the content
\* script for extractInvoice, the offscreen document for extractPDFText, the
\* background worker for the others; no listener has a branch for fetchBlob
HasHandler(a) == a # "fetchBlob"

\* The branch ends in .catch(error => sendResponse({ error ... })); the
\* branches of getApiKey and saveApiKey are .then(sendResponse) alone
HasCatch(a) == a \notin {"getApiKey", "saveApiKey"}

Unsent == [action |-> "none", pc |-> "unsent", answers |-> 0, last |-> "none"]

MsgIdle == reqs = [i \in Requests |-> Unsent]

\* A request is sent and the listeners run: a branch starts its handler and
\* keeps the channel open, or every listener returns undefined and the
\* channel closes without a response
SendMessage(i, a) ==
    /\ reqs[i].pc = "unsent"
    /\ reqs' = [reqs EXCEPT ![i] =
                  [action |-> a, pc |-> IF HasHandler(a) THEN "handling" ELSE "closed",
                   answers |-> 0, last |-> "none"]]
    /\ UNCHANGED <<formVars, uiVars, pipeVars, normVars, pdfVars, procVars, bgVars, wiseVars, domVars, loginVars, optVars>>

\* The promise of the handler settles: fulfilled, sendResponse gets the
\* result; rejected, the catch callback sends { error }, and where there is
\* no catch callback nothing is sent
HandlerSettles(i, fulfilled) ==
    /\ reqs[i].pc = "handling"
    /\ reqs' = [reqs EXCEPT ![i] =
                  IF fulfilled
                  THEN [@ EXCEPT !.pc = "closed", !.answers = @ + 1, !.last = "result"]
                  ELSE IF HasCatch(reqs[i].action)
                  THEN [@ EXCEPT !.pc = "closed", !.answers = @ + 1, !.last = "error"]
                  ELSE [@ EXCEPT !.pc = "closed"]]
    /\ UNCHANGED <<formVars, uiVars, pipeVars, normVars, pdfVars, procVars, bgVars, wiseVars, domVars, loginVars, optVars>>

-----------------------------------------------------------------------------
(* The Wise transfer flow of the background worker (createWiseTransferFlow, *)
(* wisePost): three POSTs, each awaited before the next is built.            *)

\* Calls of createWiseTransferFlow a behaviour holds
MaxFlows == 2
\* Ids the Wise API hands out; 0 stands for an absent or falsy id
MaxId == 2

Flows == 1..MaxFlows
WiseIds == 1..MaxId

QuotePath == "/v3/profiles/28692607/quotes"
AccountPath == "/v1/accounts"
TransferPath == "/v1/transfers"

\* transferData as the flow's guards see it: are amount, currency,
\* receiverName and bankFields all truthy, and is bankFields.iban (or .IBAN)
TransferInputs == [complete : BOOLEAN, iban : BOOLEAN]

\* What wisePost can come back with: fetch rejects, the response is not ok,
\* or response.json() yields null, or an object whose id is absent (0) or set
NotAnswered == [kind |-> "pending", id |-> 0]
WiseResponses ==
    { [kind |-> k, id |-> 0] : k \in {"rejected", "notOk", "null", "object"} }
    \cup { [kind |-> "object", id |-> i] : i \in WiseIds }

\* wisePost throws when fetch rejects or the response is not ok
wisePostThrows(r) == r.kind \in {"rejected", "notOk"}

HasId_NoCheck(r) == TRUE

\* `!quote || !quote.id` (and the same for recipient and transfer), negated
HasId(r) == r.kind = "object" /\ r.id # 0

\* The request wisePost sends, with the ids its body carries (0: null or
\* no such property) and the response it is waiting for
wisePost(path, targetAccount, quoteUuid) ==
    [path |-> path, targetAccount |-> targetAccount, quoteUuid |-> quoteUuid,
     response |-> NotAnswered]

NoFlow == [pc |-> "idle", data |-> [complete |-> FALSE, iban |-> FALSE],
           posts |-> <<>>, out |-> "none"]

WiseIdle == flows = [f \in Flows |-> NoFlow]

\* createWiseTransferFlow(transferData) up to its first await: the guard on
\* the transfer data, then the quote POST
createWiseTransferFlow(f, data) ==
    /\ flows[f].pc = "idle"
    /\ \A g \in Flows : g < f => flows[g].pc # "idle"
    /\ flows' = [flows EXCEPT ![f] =
           IF ~data.complete
           THEN [NoFlow EXCEPT !.pc = "failed", !.data = data,
                               !.out = "Missing required transfer data"]
           ELSE [NoFlow EXCEPT !.pc = "quote", !.data = data,
                               !.posts = <<wisePost(QuotePath, 0, 0)>>]]
    /\ UNCHANGED <<formVars, uiVars, pipeVars, normVars, pdfVars, procVars, msgVars, bgVars, domVars, loginVars, optVars>>

\* The flow's record once the awaited wisePost settles with r
Resume(fl, r) ==
    LET n == Len(fl.posts)
        answered == [fl EXCEPT !.posts[n].response = r]
    IN  IF wisePostThrows(r)
        THEN [answered EXCEPT !.pc = "failed", !.out = "Wise API error"]
        ELSE CASE fl.pc = "quote" ->
                    IF ~HasId(r)
                    THEN [answered EXCEPT !.pc = "failed",
                                          !.out = "Failed to create Wise quote"]
                    ELSE IF ~fl.data.iban
                    THEN [answered EXCEPT !.pc = "failed",
                                          !.out = "IBAN is required for Wise transfer in this demo"]
                    ELSE [answered EXCEPT !.pc = "recipient",
                                          !.posts = Append(answered.posts,
                                                        wisePost(AccountPath, 0, 0))]
               [] fl.pc = "recipient" ->
                    IF ~HasId(r)
                    THEN [answered EXCEPT !.pc = "failed",
                                          !.out = "Failed to create Wise recipient account"]
                    ELSE [answered EXCEPT !.pc = "transfer",
                                          !.posts = Append(answered.posts,
                                                        wisePost(TransferPath, r.id,
                                                                 fl.posts[1].response.id))]
               [] OTHER ->
                    IF ~HasId(r)
                    THEN [answered EXCEPT !.pc = "failed",
                                          !.out = "Failed to create Wise transfer"]
                    ELSE [answered EXCEPT !.pc = "done", !.out = "success"]

\* An awaited wisePost settles and the flow runs to its next await or its end
WiseResponse(f, r) ==
    /\ flows[f].pc \in {"quote", "recipient", "transfer"}
    /\ flows' = [flows EXCEPT ![f] = Resume(flows[f], r)]
    /\ UNCHANGED <<formVars, uiVars, pipeVars, normVars, pdfVars, procVars, msgVars, bgVars, domVars, loginVars, optVars>>

-----------------------------------------------------------------------------
(* The content script (content.js): handleExtraction on a document whose    *)
(* selectors match or not, each match with a text of some length.           *)

\* emailText.length < 100 and docsText.length < 100
MinDomLen == 100

\* A text is known by the element it was read from, its length, and its
\* length once trimmed; '' is one text wherever it was read
EmptyText == [id |-> "none", len |-> 0, trimLen |-> 0]
MkText(id, len, trimLen) ==
    IF len = 0 THEN EmptyText ELSE [id |-> id, len |-> len, trimLen |-> trimLen]

\* String.prototype.trim
trim(t) == MkText(t.id, t.trimLen, t.trimLen)

\* Texts an element can hold: none, blanks only, short, long, long with
\* blanks around a short text
DomTexts(id) ==
    { MkText(id, 0, 0), MkText(id, MinDomLen, 0), MkText(id, MinDomLen - 1, MinDomLen - 1),
      MkText(id, MinDomLen, MinDomLen), MkText(id, MinDomLen, MinDomLen - 1) }

\* What a selector finds: nothing, or an element with its text
NoMatch == [present |-> FALSE, text |-> EmptyText]
Match(t) == [present |-> TRUE, text |-> t]
Matches(id) == {NoMatch} \cup { Match(t) : t \in DomTexts(id) }

\* Visible mail-body parts with a non-blank text, joined: no part, or a text
\* that is not blank
JoinedParts(id) == {NoMatch} \cup { Match(t) : t \in {u \in DomTexts(id) : u.trimLen > 0} }

\* document.body, cloned and stripped, its innerText trimmed
BodyTexts == { trim(t) : t \in DomTexts("body") }

TierNames == {"a3s", "iigt", "area", "words", "canvas", "layers", "main"}

BlankPage ==
    [host |-> "other", kind |-> "html", source |-> FALSE,
     tier |-> [n \in TierNames |-> NoMatch], body |-> EmptyText]

GmailPages ==
    { [BlankPage EXCEPT !.host = "gmail", !.tier["a3s"] = a, !.tier["iigt"] = b,
                        !.tier["area"] = c, !.body = t] :
        a \in JoinedParts("a3s"), b \in Matches("iigt"), c \in Matches("area"),
        t \in BodyTexts }

DocsPages ==
    { [BlankPage EXCEPT !.host = "docs", !.tier["words"] = a, !.tier["canvas"] = b,
                        !.tier["layers"] = c, !.tier["main"] = d, !.body = t] :
        a \in Matches("words"), b \in Matches("canvas"),
        c \in {NoMatch, Match(MkText("layers", 0, 0)), Match(MkText("layers", MinDomLen, MinDomLen))},
        d \in {NoMatch, Match(MkText("main", MinDomLen - 1, MinDomLen - 1)),
               Match(MkText("main", MinDomLen, MinDomLen))},
        t \in BodyTexts }

OtherPages == { [BlankPage EXCEPT !.body = t] : t \in BodyTexts }

\* Documents detectContentType classifies as PDF, with and without a source
\* findPDFSource can name (an embed element without src has none)
PdfPages == { [BlankPage EXCEPT !.kind = "pdf", !.source = s] : s \in BOOLEAN }

Pages == GmailPages \cup DocsPages \cup OtherPages \cup PdfPages

\* !emailText || emailText.length < 100
NeedsMore(t) == t.len = 0 \/ t.len < MinDomLen

\* if (NeedsMore(text)) { el = querySelector(..); if (el) text = el's text }
OrElse(t, m) == IF NeedsMore(t) /\ m.present THEN m.text ELSE t

extractGmailContent(d) ==
    LET parts == IF d.tier["a3s"].present THEN d.tier["a3s"].text ELSE EmptyText
        container == OrElse(parts, d.tier["iigt"])
        area == OrElse(container,
                       [d.tier["area"] EXCEPT !.text = trim(d.tier["area"].text)])
    IN  trim(area)

extractGoogleDocsContent(d) ==
    LET words == IF d.tier["words"].present THEN d.tier["words"].text ELSE EmptyText
        canvas == OrElse(words, d.tier["canvas"])
        layers == OrElse(canvas, d.tier["layers"])
        main == OrElse(layers, d.tier["main"])
        body == OrElse(main, Match(d.body))
    IN  trim(body)

extractCleanText(d) ==
    CASE d.host = "gmail" -> extractGmailContent(d)
      [] d.host = "docs" -> extractGoogleDocsContent(d)
      [] OTHER -> d.body

\* Answers of the content script: { error }, the RawContent of extractFromDOM,
\* or whatever processPDF answered
NoAnswer == [kind |-> "pending", text |-> EmptyText]
ExtractionError == [kind |-> "error", text |-> EmptyText]
RawContent(t) == [kind |-> "DOM", text |-> t]
Forwarded(r) == [kind |-> r, text |-> EmptyText]

DomIdle == dom = BlankPage /\ contentPc = "idle" /\ contentOut = NoAnswer

\* message.action === 'extractInvoice' in document d: handleExtraction up to
\* its answer, or up to the processPDF request of extractFromPDF
OnExtractInvoice(d) ==
    /\ contentPc = "idle"
    /\ dom' = d
    /\ IF d.kind = "pdf"
       THEN IF ~d.source
            THEN contentPc' = "done" /\ contentOut' = ExtractionError
            ELSE contentPc' = "processPDF" /\ UNCHANGED contentOut
       ELSE contentPc' = "done" /\ contentOut' = RawContent(extractCleanText(d))
    /\ UNCHANGED <<formVars, uiVars, pipeVars, normVars, pdfVars, procVars, msgVars, bgVars, wiseVars, loginVars, optVars>>

\* processPDF is answered (or its channel closes): extractFromPDF returns
\* the response as it is
ProcessPDFAnswered(r) ==
    /\ contentPc = "processPDF"
    /\ contentPc' = "done"
    /\ contentOut' = Forwarded(r)
    /\ UNCHANGED dom
    /\ UNCHANGED <<formVars, uiVars, pipeVars, normVars, pdfVars, procVars, msgVars, bgVars, wiseVars, loginVars, optVars>>

-----------------------------------------------------------------------------
(* The mock login gate: the head of sidebar.js, handleLogout, and the login *)
(* page in its two versions (sidebar/login.js, unnamed/part_005).           *)

\* Emails typed into the login form: none, blanks, addresses, and strings
\* that miss a part of an address or have one too many
Emails ==
    { <<>>, <<" ">>, <<"a">>, <<"a", "@", "a">>, <<"a", "@", "a", ".", "a">>,
      <<" ", "a", "@", "a", ".", "a", " ">>, <<"a", " ", "@", "a", ".", "a">>,
      <<"@", "a", ".", "a">>, <<"a", "@", ".", "a">>, <<"a", "@", "a", ".">>,
      <<"a", "@", "@", "a", ".", "a">>, <<"a", ".", "a", "@", "a">>,
      <<"a", "@", "a", ".", "a", ".", "a">> }
Passwords == { <<>>, <<" ">>, <<"p">>, <<" ", "p">> }

LoginScripts == {"sidebar/login.js", "unnamed/part_005"}

\* setCookie('wise_auth_session', 'authenticated', 24) is in part_005 only
SetsCookie(script) == script = "unnamed/part_005"

\* /^[^\s@]+@[^\s@]+\.[^\s@]+$/.test(email)
isValidEmail(email) ==
    /\ \A i \in 1..Len(email) : email[i] \notin WS
    /\ \E at \in 1..Len(email) :
          /\ email[at] = "@"
          /\ \A i \in 1..Len(email) : email[i] = "@" => i = at
          /\ at > 1
          /\ \E dot \in (at + 2)..(Len(email) - 1) : email[dot] = "."

\* The checks of handleLogin on the trimmed inputs
LoginValid(in) ==
    /\ Trim(in.email) # <<>>
    /\ Trim(in.password) # <<>>
    /\ isValidEmail(Trim(in.email))

NoLoginInput == [email |-> <<>>, password |-> <<>>]

\* The sidebar is shown to a logged-in user; nobody is logging in
LoginIdle ==
    /\ loginScript = "unnamed/part_005"
    /\ cookie = TRUE
    /\ location = "sidebar"
    /\ loginInput = NoLoginInput
    /\ loginPc = "idle"

\* sidebar.html is being loaded, with or without a cookie left from before
LoginInit ==
    /\ loginScript \in LoginScripts
    /\ cookie \in BOOLEAN
    /\ location = "loading sidebar"
    /\ loginInput = NoLoginInput
    /\ loginPc = "idle"

LoginFrame == UNCHANGED <<formVars, uiVars, pipeVars, normVars, pdfVars, procVars,
                          msgVars, bgVars, wiseVars, domVars, optVars>>

\* The head of sidebar.js runs: without the cookie it redirects to login.html
SidebarLoads ==
    /\ location = "loading sidebar"
    /\ location' = IF cookie THEN "sidebar" ELSE "loading login"
    /\ UNCHANGED <<loginScript, cookie, loginInput, loginPc>>
    /\ LoginFrame

\* The login script runs: part_005 redirects to sidebar.html when the cookie
\* is there, login.js has no such check
LoginLoads ==
    /\ location = "loading login"
    /\ location' = IF SetsCookie(loginScript) /\ cookie THEN "loading sidebar" ELSE "login"
    /\ loginInput' = NoLoginInput
    /\ loginPc' = "idle"
    /\ UNCHANGED <<loginScript, cookie>>
    /\ LoginFrame

\* The login form is submitted: handleLogin up to its first timer, or to its
\* return when a check fails
handleLogin(email, password) ==
    /\ location = "login" /\ loginPc = "idle"
    /\ loginInput' = [email |-> email, password |-> password]
    /\ loginPc' = IF LoginValid(loginInput') THEN "authenticating" ELSE "idle"
    /\ UNCHANGED <<loginScript, cookie, location>>
    /\ LoginFrame

\* The timers of handleLogin have run: part_005 creates the cookie; both
\* versions redirect to sidebar.html
LoginRedirects ==
    /\ location = "login" /\ loginPc = "authenticating"
    /\ cookie' = IF SetsCookie(loginScript) THEN TRUE ELSE cookie
    /\ location' = "loading sidebar"
    /\ loginPc' = "idle"
    /\ UNCHANGED <<loginScript, loginInput>>
    /\ LoginFrame

\* handleLogout: deleteCookie, then the redirect to login.html
handleLogout ==
    /\ location = "sidebar"
    /\ cookie' = FALSE
    /\ location' = "loading login"
    /\ UNCHANGED <<loginScript, loginInput, loginPc>>
    /\ LoginFrame

\* The cookie reaches its expiry (24 hours after it was set)
CookieExpires ==
    /\ cookie
    /\ cookie' = FALSE
    /\ UNCHANGED <<loginScript, location, loginInput, loginPc>>
    /\ LoginFrame

-----------------------------------------------------------------------------
(* Specifications *)

-----------------------------------------------------------------------------
(* The options page (unnamed/part_004) and the saveApiKey branch of the     *)
(* background worker: the two writers of the stored credential.             *)

\* At most this many auto-hide timers of the success banner are pending
MaxOptTimers == 2

\* Keys typed into the input or carried by a saveApiKey message
ApiKeys ==
    { <<>>, <<" ">>, TestedKey, <<" ">> \o TestedKey \o <<" ">>,
      <<"s", "k", "-", "b">>, <<"p", "k", "-", "a">>, <<"s", "k">> }

\* loadSettings has run: the input shows the stored key, if there is one
OptIdle ==
    /\ openai_api_key = IF storedKey THEN TestedKey ELSE <<>>
    /\ apiKeyInput = openai_api_key
    /\ optPc = "idle"
    /\ optKey = <<>>
    /\ optMsg = "none"
    /\ optTimers = 0

OptFrame ==
    UNCHANGED <<formVars, uiVars, task, reply, aiSent, aiReply, filledBy,
                normVars, pdfVars, procVars, msgVars, bgVars, wiseVars, domVars,
                loginVars>>

\* chrome.storage.local.set({ openai_api_key: apiKey }), as getApiKey reads
\* it afterwards (result.openai_api_key || null)
StorageSet(apiKey) ==
    /\ openai_api_key' = apiKey
    /\ storedKey' = Truthy(apiKey)

\* The user edits the key input; the input listener runs hideMessages
ApiKeyTyped(k) ==
    /\ apiKeyInput' = k
    /\ optMsg' = "none"
    /\ UNCHANGED <<openai_api_key, storedKey, optPc, optKey, optTimers>>
    /\ OptFrame

\* Click on Save: handleSave up to its await of testApiKey, or to the return
\* of a failed validation (finally re-enables the button)
SaveClicked ==
    /\ optPc = "idle"
    /\ LET apiKey == Trim(apiKeyInput) IN
       IF ~Truthy(apiKey) \/ ~startsWith(apiKey, <<"s", "k", "-">>)
       THEN /\ optMsg' = "error"
            /\ UNCHANGED <<optPc, optKey>>
       ELSE /\ optPc' = "testing"
            /\ optKey' = apiKey
            /\ UNCHANGED optMsg
    /\ UNCHANGED <<openai_api_key, storedKey, apiKeyInput, optTimers>>
    /\ OptFrame

\* testApiKey settles (response.ok, or false when fetch threw) and handleSave
\* runs to its end: showError, or the write to storage and showSuccess
testApiKeyAnswered(isValid) ==
    /\ optPc = "testing"
    /\ isValid => optTimers < MaxOptTimers
    /\ optPc' = "idle"
    /\ IF ~isValid
       THEN /\ optMsg' = "error"
            /\ UNCHANGED <<openai_api_key, storedKey, optTimers>>
       ELSE /\ StorageSet(optKey)
            /\ optMsg' = "success"
            /\ optTimers' = optTimers + 1
    /\ UNCHANGED <<apiKeyInput, optKey>>
    /\ OptFrame

\* An auto-hide timer of showSuccess fires
OptHideTimer ==
    /\ optTimers > 0
    /\ optTimers' = optTimers - 1
    /\ optMsg' = IF optMsg = "success" THEN "none" ELSE optMsg
    /\ UNCHANGED <<openai_api_key, storedKey, apiKeyInput, optPc, optKey>>
    /\ OptFrame

\* message.action === 'saveApiKey': saveApiKey(message.apiKey)
OnSaveApiKey(apiKey) ==
    /\ StorageSet(apiKey)
    /\ UNCHANGED <<apiKeyInput, optPc, optKey, optMsg, optTimers>>
    /\ OptFrame

ExtIdle == MsgIdle /\ BgIdle /\ WiseIdle /\ DomIdle /\ LoginIdle /\ OptIdle

LibIdle == NormIdle /\ PdfIdle /\ ProcIdle /\ ExtIdle

Init == FormInit /\ UiInit /\ PipeInit /\ LibIdle

\* Spec: the extraction pipeline, with the replies of the content script, the
\* background worker and the AI step chosen by the environment.
Next ==
    \/ \E t \in Tasks : ClickExtract(t)
    \/ \E t \in Tasks : DropFile(t)
    \/ DropRejected
    \/ \E t \in Tasks : KeyReply(t)
    \/ \E t \in Tasks, b \in BOOLEAN : TabsReply(t, b)
    \/ \E t \in Tasks, b \in BOOLEAN : FileRead(t, b)
    \/ \E t \in Tasks, r \in ContentReplies : ContentReply(t, r)
    \/ \E t \in Tasks : handleAIExtraction(t)
    \/ \E t \in Tasks, k \in {"undefined", "error"} :
            AiReply(t, k, MkRecord(EUR, <<>>, <<>>, FALSE))
    \/ \E t \in Tasks, data \in PipelineRecords : AiReply(t, "fields", data)
    \/ BankFillTimer
    \/ HideSuccessTimer
    \/ dismissError

Spec == Init /\ [][Next]_vars

\* SpecKey: the extraction pipeline while the stored key comes and goes.
NextKey == Next \/ handleSave \/ StorageCleared

SpecKey == Init /\ [][NextKey]_vars

\* SpecFill: extractions that fill the form while the user edits fields and
\* resets the form.
InitFill == Init /\ storedKey

NextFill ==
    \/ Next
    \/ \E f \in {"receiverName", "amount"} : UserInput(f, <<"u">>)
    \/ \E f \in {"iban", "accountNumber"} : UserBankInput(f, <<"u">>)
    \/ handleClearForm

SpecFill == InitFill /\ [][NextFill]_vars

\* SpecRender: the user picks currencies, every code of the table and one
\* that has no entry, and types into the form in between.
NoEntryCode == <<"X","X","X">>
RenderCodes == (SchemaKeys \ {DEFAULT}) \cup {NoEntryCode}

NextRender ==
    \/ \E c \in RenderCodes : handleCurrencyChange(c)
    \/ \E f \in FIELD_CONFIG : UserBankInput(f, IF f \in SelectFields
                                                 THEN <<"c","h","e","c","k","i","n","g">>
                                                 ELSE <<"u">>)
    \/ UserInput("receiverName", <<"u">>)

SpecRender == InitFill /\ [][NextRender]_vars

\* SpecAcct: extractions of invoices in the currencies that ask for an
\* account type, each record with every bank identifier and an account type
\* as normalizeFields leaves it; the user submits without editing.
AcctCurrencies == {USD, <<"J","P","Y">>, <<"B","R","L">>}
AiAccountTypes == { <<"c","h","e","c","k","i","n","g">>, <<"S","a","v","i","n","g","s">> }
AcctRecords ==
    { [MkRecord(c, <<"N">>, <<"1">>, TRUE) EXCEPT !["account_type"] = toUpperCase(t)] :
        c \in AcctCurrencies, t \in AiAccountTypes }

NextAcct ==
    \/ \E t \in Tasks : ClickExtract(t)
    \/ \E t \in Tasks : KeyReply(t)
    \/ \E t \in Tasks : TabsReply(t, TRUE)
    \/ \E t \in Tasks : ContentReply(t, [kind |-> "text", len |-> MinTextLen])
    \/ \E t \in Tasks : handleAIExtraction(t)
    \/ \E t \in Tasks, data \in AcctRecords : AiReply(t, "fields", data)
    \/ BankFillTimer
    \/ HideSuccessTimer
    \/ handleSubmit

SpecAcct == InitFill /\ [][NextAcct]_vars

\* SpecForm: the form under the user's hands (typing, currency selection,
\* submission, clearing, returning from the success screen).
NextForm ==
    \/ \E f \in {"receiverName", "amount"}, v \in TypedValues : UserInput(f, v)
    \/ \E f \in FIELD_CONFIG, v \in TypedValues \cup AccountTypeOptions :
            UserBankInput(f, v)
    \/ \E c \in ModelCurrencies : handleCurrencyChange(c)
    \/ handleSubmit
    \/ SubmitDone
    \/ handleClearForm
    \/ handleReturn
    \/ dismissError

SpecForm == Init /\ [][NextForm]_vars

\* SpecNorm: one call of normalizeFields on a parsed AI response, the sidebar
\* at rest.
InitNorm == FormInit /\ UiInit /\ PipeInit /\ storedKey /\ NormInit /\ PdfIdle /\ ProcIdle /\ ExtIdle

NextNorm == CallNormalizeFields

SpecNorm == InitNorm /\ [][NextNorm]_vars

\* SpecPdf: one call of extractFromPDFWithVision up to the request to the
\* AI service, the sidebar at rest.
InitPdf == FormInit /\ UiInit /\ PipeInit /\ storedKey /\ NormIdle /\ PdfInit /\ ProcIdle /\ ExtIdle

NextPdf == ScanLiterals \/ CheckLength

SpecPdf == InitPdf /\ [][NextPdf]_vars

\* SpecProc: the background worker handling one PDF message, with the
\* network, the offscreen document and the base64 conversion as environment.
InitProc == FormInit /\ UiInit /\ PipeInit /\ storedKey /\ LibIdle

NextProc ==
    \/ \E url \in UrlKinds : OnProcessPDF(url)
    \/ \E ok \in BOOLEAN : FetchPDF(ok)
    \/ \E pdfData \in FileHeads : OnProcessPDFFile(pdfData)
    \/ \E r \in OffscreenResults : OffscreenReply(r)
    \/ \E res \in HeuristicResults : HeuristicReply(res)
    \/ ReturnText

SpecProc == InitProc /\ [][NextProc]_vars

\* SpecMsg: requests and the answers of the listeners, with the outcome of
\* each handler chosen by the environment.
NextMsg ==
    \/ \E i \in Requests, a \in MsgActions : SendMessage(i, a)
    \/ \E i \in Requests, ok \in BOOLEAN : HandlerSettles(i, ok)

SpecMsg == InitProc /\ [][NextMsg]_vars

\* SpecWise: createWiseTransfer requests served by the background worker.
NextWise ==
    \/ \E f \in Flows, data \in TransferInputs : createWiseTransferFlow(f, data)
    \/ \E f \in Flows, r \in WiseResponses : WiseResponse(f, r)

SpecWise == InitProc /\ [][NextWise]_vars

\* SpecDom: one extractInvoice request served by the content script.
NextDom ==
    \/ \E d \in Pages : OnExtractInvoice(d)
    \/ \E r \in {"undefined", "error", "success"} : ProcessPDFAnswered(r)

SpecDom == InitProc /\ [][NextDom]_vars

\* SpecLogin: the login gate, from a load of sidebar.html.
InitLogin ==
    /\ FormInit /\ UiInit /\ PipeInit /\ storedKey
    /\ NormIdle /\ PdfIdle /\ ProcIdle
    /\ MsgIdle /\ BgIdle /\ WiseIdle /\ DomIdle /\ OptIdle
    /\ LoginInit

NextLogin ==
    \/ SidebarLoads
    \/ LoginLoads
    \/ \E email \in Emails, password \in Passwords : handleLogin(email, password)
    \/ LoginRedirects
    \/ handleLogout
    \/ CookieExpires

SpecLogin == InitLogin /\ [][NextLogin]_vars

\* SpecOpt: the options page and the saveApiKey message write the stored
\* credential.
NextOpt ==
    \/ \E k \in ApiKeys : ApiKeyTyped(k)
    \/ SaveClicked
    \/ \E isValid \in BOOLEAN : testApiKeyAnswered(isValid)
    \/ OptHideTimer
    \/ \E k \in ApiKeys : OnSaveApiKey(k)

SpecOpt == Init /\ [][NextOpt]_vars

-----------------------------------------------------------------------------
(* C1 *)

\* Every bank identifier the schema requires for the selected currency has
\* an input holding a non-blank value
RequiredBankFieldsFilled ==
    \A f \in Range(RequiredFields(val["currency"])) :
        f \in Range(rendered) /\ Trim(bankValue[f]) # <<>>

\* C1: handleSubmit starts a submission (enters the loading screen) if and
\* only if receiver name and amount are non-empty and every bank identifier
\* required for the selected currency is non-blank; otherwise it shows the
\* error banner and stays on the form.
C1_SubmitIffValid ==
    [][ handleSubmit =>
          LET valid == /\ val["receiverName"] # <<>>
                       /\ val["amount"] # <<>>
                       /\ RequiredBankFieldsFilled
          IN  /\ (screen' = "loading") <=> valid
              /\ ~valid => (visible'.error /\ screen' = "form") ]_vars

-----------------------------------------------------------------------------
(* C2 *)

\* The content-extraction response of extraction t arrived without error
ContentArrived(r) == r.kind \notin {"pending", "undefined", "error"}

StageRank(pc) ==
    CASE pc = "idle" -> 0
      [] pc = "key" -> 1
      [] pc \in {"tabs", "read"} -> 2
      [] pc = "content" -> 3
      [] pc = "ai" -> 4
      [] pc = "done" -> 5

\* C2: every extraction passes its stages in order: the AI request is sent
\* only after the content response arrived without error, the form is filled
\* only after the AI response arrived without error, and an extraction that
\* ends without filling ends with the error banner shown and the form (and
\* its pending bank fills) untouched by that step.
C2_StagesInOrder ==
    [][ \A t \in Tasks :
          /\ StageRank(task'[t].pc) >= StageRank(task[t].pc)
          /\ (t \in aiSent' \ aiSent) =>
                /\ task[t].pc = "content"
                /\ ContentArrived(reply'[t])
          /\ (t \in filledBy' \ filledBy) =>
                /\ task[t].pc = "ai" /\ t \in aiSent
                /\ aiReply'[t] = "fields"
          /\ (formVars' # formVars /\ task'[t] # task[t]) => t \in filledBy' \ filledBy
          /\ (task[t].pc # "done" /\ task'[t].pc = "done" /\ t \notin filledBy') =>
                /\ visible'.error
                /\ UNCHANGED <<formVars, fillTimers>> ]_vars

\* An extraction filled the form and another one failed at the AI stage
C2_Witness ==
    \E t, u \in Tasks :
        /\ t \in filledBy
        /\ u \in aiSent /\ u \notin filledBy /\ task[u].pc = "done"
        /\ visible.error

-----------------------------------------------------------------------------
(* C3 - C7: normalizeFields *)

Returned == normPc = "done" /\ ~normOut.threw

\* C3: normalizeFields never fails: whatever JSON value it is given, it
\* returns a record and does not throw.
C3_NormalizeNeverFails == normPc = "done" => ~normOut.threw

\* C4: the record normalizeFields returns has each of the 23 keys, every
\* value is a string, and a field absent or null in the input is the empty
\* string ('EUR' for currency).
C4_FullyPopulated ==
    Returned =>
        /\ DOMAIN normOut.rec = FieldKeys
        /\ \A k \in FieldKeys :
              /\ normOut.rec[k].t = "string"
              /\ normFields[k].t \in {"undefined", "null"} =>
                    normOut.rec[k] = JStr(IF k = "currency" THEN EUR ELSE <<>>)

\* C5: the normalized amount is empty or a decimal string: no whitespace,
\* no comma and at most one '.'.
C5_AmountDecimal ==
    Returned =>
        LET a == normOut.rec["amount"]
        IN  /\ a.t = "string"
            /\ \A i \in 1..Len(a.s) : a.s[i] \notin WS \cup {","}
            /\ Cardinality({i \in 1..Len(a.s) : a.s[i] = "."}) <= 1

\* C6: the normalized currency has exactly three characters, all uppercase
\* letters, and is 'EUR' when the input is absent.
C6_CurrencyCode ==
    Returned =>
        LET c == normOut.rec["currency"]
        IN  /\ c.t = "string"
            /\ Len(c.s) = 3
            /\ \A i \in 1..Len(c.s) : c.s[i] \in Range(UpperCase)
            /\ normFields["currency"].t \in {"undefined", "null"} => c.s = EUR

\* The three results of normalizeDate, for input `in` and output `out`
DateResultOK(in, out) ==
    LET asIs == IsYMD(JsString(in))
        date == NewDate(in, parsed)
    IN  /\ ~Falsy(in) /\ asIs => out = in
        /\ ~Falsy(in) /\ ~asIs /\ date.valid => out.t = "string" /\ IsYMD(out.s)
        /\ ~Falsy(in) /\ ~asIs /\ ~date.valid => out = in
        /\ out = JStr(<<>>) => Falsy(in)

-----------------------------------------------------------------------------
(* C8, C9: the literal strings of a PDF *)

IsSubstring(x, s) ==
    \E i \in 0..(Len(s) - Len(x)) : SubSeq(s, i + 1, i + Len(x)) = x

\* A parenthesized run of s: three or more characters between a "(" at i
\* and a ")" at j, none of them a parenthesis, a backslash or a control
\* character
IsRun(s, i, j) ==
    /\ s[i] = "(" /\ s[j] = ")" /\ j - i - 1 >= 3
    /\ \A k \in (i + 1)..(j - 1) :
          s[k] \notin {"(", ")", BACKSLASH} \cup ControlChars

\* C8: every parenthesized run of three or more characters without control
\* characters appears in the text recovered from the bytes, whatever else
\* the bytes contain.
C8_RunsRecovered ==
    pdfPc = "send" =>
        \A i \in 1..Len(pdfString), j \in 1..Len(pdfString) :
            IsRun(pdfString, i, j) =>
                IsSubstring(SubSeq(pdfString, i + 1, j - 1), extractedText)

RECURSIVE IsEscapedBody(_)
\* The body of a literal string of the PDF syntax without nested
\* parentheses: plain characters and the escapes \\, \( and \)
IsEscapedBody(c) ==
    \/ c = <<>>
    \/ /\ c[1] \notin {"(", ")", BACKSLASH} \cup ControlChars
       /\ IsEscapedBody(Tail(c))
    \/ /\ c[1] = BACKSLASH /\ Len(c) >= 2 /\ c[2] \in {"(", ")", BACKSLASH}
       /\ IsEscapedBody(SubSeq(c, 3, Len(c)))

RECURSIVE Content(_)
\* What such a body stands for: each escape replaced by its character
Content(c) ==
    IF c = <<>> THEN <<>>
    ELSE IF c[1] = BACKSLASH THEN <<c[2]>> \o Content(SubSeq(c, 3, Len(c)))
         ELSE <<c[1]>> \o Content(Tail(c))

IsLiteral(s, i, j) ==
    /\ s[i] = "(" /\ (i = 1 \/ s[i - 1] # BACKSLASH)
    /\ s[j] = ")" /\ j - i - 1 >= 3
    /\ IsEscapedBody(SubSeq(s, i + 1, j - 1))

\* C9: for every literal string of the bytes, the recovered text holds its
\* content with \\ replaced by one backslash and \( and \) by the bare
\* parenthesis.
C9_EscapesUnescaped ==
    pdfPc = "send" =>
        \A i \in 1..Len(pdfString), j \in 1..Len(pdfString) :
            IsLiteral(pdfString, i, j) =>
                IsSubstring(Content(SubSeq(pdfString, i + 1, j - 1)), extractedText)

-----------------------------------------------------------------------------
(* C10: PDF processing when no strategy recovers enough text *)

\* C10: when the text of the PDF parser is below the threshold and the
\* fallback has run, the response is the error that explains the PDF is
\* likely image-based; and no successful response carries a text that is
\* not a string or is below the threshold.
C10_ImageBasedError ==
    procPc = "done" =>
        /\ procOut.kind = "success" =>
              procOut.text.t = "string" /\ ~TooShort(procOut.text)
        /\ offscreenResult.kind = "text" /\ offscreenResult.len < MinParsedLen
              /\ procText \in HeuristicResults =>
              procOut = ErrorResponse(ImageBasedMsg)

-----------------------------------------------------------------------------
(* C11: the heuristic strategy as fallback *)

\* The heuristic strategy (extractTextFromPDF) was attempted
HeuristicAttempted == procText \in HeuristicResults

\* C11: whenever the offscreen PDF parser reports a failure, gives no
\* response or returns a text below the threshold, PDF processing attempts
\* the heuristic strategy before it responds.
C11_HeuristicFallback ==
    /\ procPc = "done"
    /\ \/ offscreenResult.kind \in {"undefined", "failed"}
       \/ offscreenResult.kind = "text" /\ offscreenResult.len < MinParsedLen
    => HeuristicAttempted

-----------------------------------------------------------------------------
(* C12: every request is answered *)

\* C12: every request, whatever its action and whether its handler succeeds
\* or fails, is answered exactly once, with the result or with { error }.
C12_AnsweredOnce ==
    \A i \in Requests :
        reqs[i].pc = "closed" =>
            reqs[i].answers = 1 /\ reqs[i].last \in {"result", "error"}


\* C13: without a stored key an extraction ends in an error and the AI
\* adapter is never called.  The sidebar that learns there is no key ends
\* the extraction with the error banner, before any content request and
\* without sending extractWithAI; the background handler that finds no key
\* does not call the adapter, stays that way, and the extraction it serves
\* ends with the error banner and fills nothing.
C13_NoKeyNoAiRequest ==
    [][\A t \in Tasks :
        /\ (task[t].pc = "key" /\ task'[t].pc # "key" /\ ~storedKey)
              => /\ task'[t].pc = "done"
                 /\ visible'.error /\ ~visible'.status
                 /\ reply'[t] = Pending
                 /\ t \notin aiSent'
                 /\ bgAi'[t] = "none"
        /\ (bgAi[t] = "none" /\ bgAi'[t] # "none" /\ ~storedKey)
              => bgAi'[t] = "nokey"
        /\ bgAi[t] = "nokey" => bgAi'[t] = "nokey"
        /\ (bgAi[t] = "nokey" /\ task[t].pc = "ai" /\ task'[t].pc # "ai")
              => /\ task'[t].pc = "done"
                 /\ visible'.error
                 /\ aiReply'[t] # "fields"
                 /\ t \notin filledBy'
      ]_vars

\* C13 witness: one extraction stopped at the sidebar's key check, another
\* was failed by the background handler that found no key
C13_Witness ==
    \E t, u \in Tasks :
        /\ task[t].pc = "done" /\ t \notin aiSent /\ reply[t] = Pending
        /\ task[u].pc = "done" /\ bgAi[u] = "nokey" /\ aiReply[u] = "error"
        /\ ~storedKey


WisePaths == <<QuotePath, AccountPath, TransferPath>>

\* C14: the flow's POSTs go to the quote, recipient and transfer endpoints in
\* that order; only the last one issued can be unanswered; every POST before
\* the last one was answered with an id; the transfer POST carries the
\* recipient's id and the quote's id; and a POST that failed or came back
\* without an id is the last POST of a flow that has failed.
C14_PostsInSequence ==
    \A f \in Flows :
        LET p == flows[f].posts IN
        /\ Len(p) <= 3
        /\ \A i \in 1..Len(p) :
              /\ p[i].path = WisePaths[i]
              /\ i < Len(p) => p[i].response.kind = "object" /\ p[i].response.id \in WiseIds
              /\ i < 3 => p[i].targetAccount = 0 /\ p[i].quoteUuid = 0
              /\ i = 3 => /\ p[i].targetAccount = p[2].response.id
                          /\ p[i].quoteUuid = p[1].response.id
              /\ (p[i].response.kind \notin {"pending", "object"} \/
                  (p[i].response.kind = "object" /\ p[i].response.id = 0))
                    => i = Len(p) /\ flows[f].pc = "failed"
              /\ p[i].response.kind = "pending"
                    => i = Len(p) /\ flows[f].pc = <<"quote", "recipient", "transfer">>[i]

\* C14 witness: one flow has made all three POSTs and succeeded with
\* different quote and recipient ids, another stopped at a recipient POST
\* that came back without an id
C14_Witness ==
    \E f, g \in Flows :
        /\ flows[f].pc = "done" /\ Len(flows[f].posts) = 3
        /\ flows[f].posts[1].response.id # flows[f].posts[2].response.id
        /\ flows[g].pc = "failed" /\ Len(flows[g].posts) = 2
        /\ flows[g].posts[2].response = [kind |-> "object", id |-> 0]


\* The processPDFFile response as processPDFFile of the sidebar reads it
SidebarSees(out) ==
    CASE out.kind = "pending" -> [kind |-> "undefined", len |-> 0]
      [] out.kind = "error" -> [kind |-> "error", len |-> 0]
      [] out.text.t = "string" -> [kind |-> "text", len |-> out.text.len]
      [] OTHER -> [kind |-> "object", len |-> 0]

IsPdfFile(bytes) ==
    /\ Len(bytes) >= 5
    /\ bytes[1] = "%" /\ bytes[2] = "P" /\ bytes[3] = "D" /\ bytes[4] = "F" /\ bytes[5] = "-"

\* C15: a file whose first five bytes are not '%PDF-' (a file of fewer than
\* five bytes included) is answered with an error, without any request to
\* the offscreen parser, without the fallback extractor, and with a response
\* after which the sidebar sends no AI request.
C15_HeaderChecked ==
    (procMsg.action = "processPDFFile" /\ ~IsPdfFile(procMsg.pdfData))
        => /\ procPc = "done"
           /\ procOut.kind = "error"
           /\ offscreenResult.kind = "pending"
           /\ procText = NoText
           /\ ~ContentUsable("file", SidebarSees(procOut))

\* C15 witness: a four-byte file '%PDF' and no more was rejected
C15_Witness ==
    /\ procMsg.action = "processPDFFile"
    /\ procMsg.pdfData = <<"%", "P", "D", "F">>
    /\ procPc = "done"
    /\ procOut = ErrorResponse(HeaderMsg)


\* C16: the auto-filled flag is cleared by a manual edit and by a reset:
\* after the form is reset no static field and no bank input carries the
\* flag, and after the user edits a field that field does not carry it.
C16_AutoFilledCleared ==
    [][/\ handleClearForm => (auto' = {} /\ bankAuto' = {})
       /\ \A f \in StaticFields : UserInput(f, <<"u">>) => f \notin auto'
       /\ \A f \in BankKeys \cup Range(rendered) :
              UserBankInput(f, <<"u">>) => f \notin bankAuto'
      ]_vars


\* C17: handleExtraction answers with an error when the document is
\* classified as PDF and no PDF source is found, and what extractFromDOM
\* returns as RawContent never has an empty text.
C17_UsableTextOrError ==
    contentPc = "done" =>
        /\ (dom.kind = "pdf" /\ ~dom.source) => contentOut = ExtractionError
        /\ contentOut.kind = "DOM" => contentOut.text.len > 0

\* The tiers of the cascade for the host of document d, in order, the
\* generic body fallback last
Cascade(d) ==
    CASE d.host = "gmail" -> <<d.tier["a3s"], d.tier["iigt"], d.tier["area"], Match(d.body)>>
      [] d.host = "docs" -> <<d.tier["words"], d.tier["canvas"], d.tier["layers"],
                              d.tier["main"], Match(d.body)>>
      [] OTHER -> <<Match(d.body)>>

Wins(m) == m.present /\ m.text.len >= MinDomLen

\* C18: the text returned for a DOM document is the trimmed text of the
\* first tier of the cascade that matched a text of at least 100 characters;
\* and when the primary selector of the host matched nothing while the body
\* has text, the returned text is not empty.
C18_FirstTierWins ==
    (contentPc = "done" /\ contentOut.kind = "DOM") =>
        LET tiers == Cascade(dom) IN
        /\ \A i \in 1..Len(tiers) :
              (Wins(tiers[i]) /\ \A j \in 1..(i - 1) : ~Wins(tiers[j]))
                  => contentOut.text = trim(tiers[i].text)
        /\ (~tiers[1].present /\ dom.body.len > 0) => contentOut.text.len > 0


\* C19: rendering the bank fields for a currency of the table yields the
\* fields the table lists for it, in the table's order, and for a currency
\* without an entry the single field accountNumber; every input created is
\* marked required.
C19_ConfiguredFieldsRendered ==
    [][\A c \in RenderCodes :
          handleCurrencyChange(c) =>
              /\ rendered' = IF c \in SchemaKeys THEN CURRENCY_BANK_FIELDS(c)
                             ELSE <<"accountNumber">>
              /\ \A i \in 1..Len(rendered') : BankInput(rendered'[i]).required
      ]_vars

\* C19 witness: a currency without an entry is selected and accountNumber
\* alone is rendered
C19_Witness ==
    /\ val["currency"] = NoEntryCode
    /\ rendered = <<"accountNumber">>

\* C20: right after a currency change the rendered bank inputs are those of
\* the new currency, every one of them is empty, whether or not the old
\* currency had an input of that name, and every other field of the form
\* has the value it had.
C20_RerenderClears ==
    [][\A c \in RenderCodes :
          handleCurrencyChange(c) =>
              /\ rendered' = renderBankFields(c)
              /\ DOMAIN bankValue' = Range(rendered')
              /\ \A f \in Range(rendered') : bankValue'[f] = <<>>
              /\ \A f \in StaticFields \ {"currency"} : val'[f] = val[f]
      ]_vars

\* C20 witness: the receiver name typed earlier is in place, GBP is selected,
\* and its inputs sortCode and accountNumber are rendered and empty
C20_Witness ==
    /\ val["currency"] = GBP
    /\ val["receiverName"] = <<"u">>
    /\ rendered = <<"sortCode", "accountNumber">>
    /\ \A f \in Range(rendered) : bankValue[f] = <<>>


\* C21: the sidebar is shown by a load exactly when the cookie is present;
\* when a login that passed validation redirects to the sidebar the cookie
\* is present, so that the load does not lead back to the login page; and a
\* logout leaves no cookie and leads to the login page.
C21_GateFollowsCookie ==
    [][/\ location = "loading sidebar" /\ location' # location
            => (location' = "sidebar" <=> cookie)
       /\ (loginPc = "authenticating" /\ location' = "loading sidebar") => cookie'
       /\ (location = "sidebar" /\ location' = "loading login") => ~cookie'
      ]_vars


\* C22: the bank inputs rendered are the ones the table lists for the
\* currency selected in the form, accountNumber alone when the currency has
\* no entry.
C22_RenderedMatchesCurrency ==
    rendered = IF val["currency"] \in SchemaKeys THEN CURRENCY_BANK_FIELDS(val["currency"])
               ELSE <<"accountNumber">>


\* C23: when fillForm has run for an extraction's record, every field of the
\* form other than the currency and the bank inputs holds the value of that
\* record or is empty.
C23_NoStaleValues ==
    [][Len(fillTimers') > Len(fillTimers) =>
          LET data == fillTimers'[Len(fillTimers')] IN
          \A f \in StaticFields \ {"currency"} :
              val'[f] = data[StaticKeyOf(f)] \/ val'[f] = <<>>
      ]_vars


\* C24: when the timer of fillForm fires for a record with an account type
\* while an account-type input is rendered, the input holds that account
\* type afterwards, and no bank input of the record's currency is left empty.
C24_AccountTypeFilled ==
    [][(/\ fillTimers # <<>> /\ fillTimers' = Tail(fillTimers)
        /\ "accountType" \in Range(rendered)
        /\ Truthy(Head(fillTimers)["account_type"])
        /\ rendered = renderBankFields(Head(fillTimers)["currency"]))
          => /\ toUpperCase(bankValue'["accountType"]) = Head(fillTimers)["account_type"]
             /\ \A f \in Range(rendered) : Trim(bankValue'[f]) # <<>>
      ]_vars


InFlight(t) == task[t].pc \in {"key", "tabs", "read", "content", "ai"}

\* C25: while an extraction is in flight the extract button is disabled, and
\* no two extractions are in flight together.
C25_OneExtractionAtATime ==
    /\ (\E t \in Tasks : InFlight(t)) => btnDisabled
    /\ \A t, u \in Tasks : (InFlight(t) /\ InFlight(u)) => t = u


\* C26: when the timer of fillForm fires for a record while the bank inputs
\* are no longer the ones rendered for that record (other inputs are
\* rendered, or a later fill has rendered its own), it writes no bank input
\* and flags none.
C26_TimerWritesOwnInputs ==
    [][(/\ fillTimers # <<>> /\ fillTimers' = Tail(fillTimers)
        /\ Truthy(Head(fillTimers)["currency"])
        /\ \/ rendered # renderBankFields(Head(fillTimers)["currency"])
           \/ Len(fillTimers) >= 2 /\ Truthy(fillTimers[2]["currency"]))
          => (bankValue' = bankValue /\ bankAuto' = bankAuto)
      ]_vars


\* C27: at most one of the three banners (status, error, success) is visible
\* at any time, whatever sequence of showStatus, showError, showSuccess, hides
\* and the auto-hide timer of the success banner has run.
C27_OneBannerAtMost ==
    /\ ~(visible.status /\ visible.error)
    /\ ~(visible.status /\ visible.success)
    /\ ~(visible.error /\ visible.success)

\* An error banner replaced a success banner whose auto-hide timer is still
\* pending.
C27_Witness ==
    /\ visible.error
    /\ hideTimers > 0
    /\ filledBy # {}


\* C28: createWiseTransferFlow makes no request when the transfer data is
\* invalid: a flow started with the amount, the currency, the receiver name,
\* the bank fields or the IBAN missing has issued no POST, the quote POST
\* included.
C28_InvalidDataNoRequest ==
    \A f \in Flows :
        (flows[f].pc # "idle" /\ (~flows[f].data.complete \/ ~flows[f].data.iban))
            => flows[f].posts = <<>>


\* The tiers extractGmailContent and extractGoogleDocsContent consult, in
\* order, each with the text it would assign
HostTiers(d) ==
    CASE d.host = "gmail" ->
            <<d.tier["a3s"], d.tier["iigt"],
              [d.tier["area"] EXCEPT !.text = trim(d.tier["area"].text)]>>
      [] d.host = "docs" ->
            <<d.tier["words"], d.tier["canvas"], d.tier["layers"], d.tier["main"],
              Match(d.body)>>
      [] OTHER -> <<>>

\* The text the cascade holds once its first i tiers have run
RECURSIVE TextAfter(_, _)
TextAfter(tiers, i) ==
    IF i = 0 THEN EmptyText ELSE OrElse(TextAfter(tiers, i - 1), tiers[i])

\* C29: in the webmail and document-viewer cascades the text returned is at
\* least as long as the text the cascade held after any earlier tier (both
\* measured without surrounding blanks): no later tier replaces a text by a
\* shorter or an empty one.
C29_LaterTierNeverWorse ==
    (contentPc = "done" /\ contentOut.kind = "DOM") =>
        LET tiers == HostTiers(dom) IN
        \A i \in 1..Len(tiers) :
            contentOut.text.len >= TextAfter(tiers, i).trimLen


\* C30: the stored credential changes only in the step of handleSave that
\* follows a passed test, and then to the key that was tested, which is
\* non-empty and starts with 'sk-'; no other save attempt, from the options
\* page or through the saveApiKey message, changes the stored key.
C30_OnlyTestedKeyStored ==
    [][openai_api_key' # openai_api_key =>
          /\ optPc = "testing" /\ optPc' = "idle" /\ optMsg' = "success"
          /\ openai_api_key' = optKey
          /\ Truthy(optKey) /\ startsWith(optKey, <<"s", "k", "-">>)
      ]_vars

====
